---- MODULE Spec2Model ----
(***************************************************************************)
(* Order admission, matching, settlement and price refresh of the market   *)
(* simulation (crud.py, services/order_matching.py).                       *)
(*                                                                         *)
(* Money and prices are Float columns in the source; the model uses exact  *)
(* integers, so cash = shares x price is computed without rounding.  The   *)
(* +-10% band "price <= last * 1.1" is compared as 10*price <= 11*last.    *)
(***************************************************************************)
EXTENDS Integers, Sequences, FiniteSets, TLC

\* ------------------------------------------------------------------ bounds
\* Order ids are uuid4 strings; the model numbers them 1, 2, ... and stops
\* admitting orders once MaxOrderId ids have been handed out (LongOrderId in
\* the specifications that follow longer order flows).
MaxOrderId == 3
LongOrderId == 4
\* Largest share count of one admission request.
MaxShares == 2
\* Order ids handed out in the specification of the corporate actions.
CorporateOrderId == 2
\* A split is followed only while it leaves the stock price at most MaxPrice.
MaxPrice == 24
\* ... and the outstanding shares at most MaxOutstanding.
MaxOutstanding == 6
\* Dividends a company accumulates and pays, in all.
MaxDividends == 4200
\* The last year the simulated date is advanced through.
LastYear == 2020

\* ------------------------------------------------------------- the universe
ShareholderIds == {"A", "B", "C"}   \* ids of shareholders rows
CompanyIds == {"c1", "c2"}          \* ids of companies rows
UnknownShareholder == "nobody"      \* an id that never has a shareholders row
UnknownCompany == "nowhere"         \* an id that never has a companies row
Prices == {10, 12}                  \* limit prices a request may carry
None == -1                          \* Python None in Order.price

BUY == "buy"
SELL == "sell"
LIMIT == "limit"
MARKET == "market"

VARIABLES
    cash,                \* DBShareholder.cash, by shareholder id
    portfolios,          \* DBPortfolio rows: <<shareholder, company>> -> shares
    stock_price,         \* DBCompany.stock_price, by company id
    outstanding_shares,  \* DBCompany.outstanding_shares, by company id
    orders,              \* Order rows, in insertion order
    transactions,        \* Transaction rows, in creation order
    fills,               \* history: how transactions[i] came about (the phase
                         \* and the orders matched); not read by any operation
    tx_head,             \* by company: index of its Transaction with the
                         \* greatest id (0 if none); ids are random uuid4
    next_id,             \* number of order ids handed out so far, plus one
    call,                \* the operation that produced this state, with input
    ret,                 \* what that operation returned
    fill,                \* position of a market-order execution between commits
    dividend_account,    \* DBCompany.dividend_account, by company id
    dividends_paid,      \* DBCompany.dividends_paid, by company id
    last_dividend_payout_date,  \* DBCompany.last_dividend_payout_date
    simulation_date      \* GlobalSettings "simulation_date": [month, day]

vars == <<cash, portfolios, stock_price, outstanding_shares, orders,
          transactions, fills, tx_head, next_id, call, ret, fill,
          dividend_account, dividends_paid, last_dividend_payout_date,
          simulation_date>>

\* The columns and settings that trading never writes.
corporate == <<dividend_account, dividends_paid, last_dividend_payout_date,
               simulation_date>>

\* The rows of the database as one value, threaded through the operators.
DB == [cash |-> cash, portfolios |-> portfolios, stock_price |-> stock_price,
       outstanding_shares |-> outstanding_shares, orders |-> orders,
       transactions |-> transactions, fills |-> fills, tx_head |-> tx_head]

\* The rows that exist.
Shareholders == DOMAIN cash
Companies == DOMAIN stock_price

\* --------------------------------------------------------------- helpers
Min(a, b) == IF a <= b THEN a ELSE b

RECURSIVE SumSeq(_)
SumSeq(s) == IF s = <<>> THEN 0 ELSE Head(s) + SumSeq(Tail(s))

RECURSIVE SumSet(_, _)
\* Sum of f[x] over the finite set S.
SumSet(f, S) ==
    IF S = {} THEN 0
    ELSE LET x == CHOOSE y \in S : TRUE IN f[x] + SumSet(f, S \ {x})

\* db.query(Order).filter(...).all(): the matching rows, in insertion order.
Filter(s, Test(_)) == SelectSeq(s, Test)

\* crud.get_portfolio(...).shares if a row exists, else 0.
get_portfolio_shares(db, shareholder_id, company_id) ==
    IF <<shareholder_id, company_id>> \in DOMAIN db.portfolios
    THEN db.portfolios[<<shareholder_id, company_id>>]
    ELSE 0

has_portfolio(db, shareholder_id, company_id) ==
    <<shareholder_id, company_id>> \in DOMAIN db.portfolios

\* func.sum(DBPortfolio.shares) over the rows of one company.
get_total_shares_held(db, company_id) ==
    SumSet([k \in DOMAIN db.portfolios |-> db.portfolios[k]],
           {k \in DOMAIN db.portfolios : k[2] = company_id})

\* func.sum(Order.shares) over the open orders of one side of a shareholder
\* in a company ("or 0" when there is none).
order_shares_sum(db, shareholder_id, company_id, order_type) ==
    LET rows == Filter(db.orders, LAMBDA o : /\ o.shareholder_id = shareholder_id
                                             /\ o.company_id = company_id
                                             /\ o.order_type = order_type)
    IN SumSeq([i \in 1..Len(rows) |-> rows[i].shares])

get_pending_sell_orders(db, shareholder_id, company_id) ==
    order_shares_sum(db, shareholder_id, company_id, SELL)

\* func.sum(Order.shares * Order.price) over the open LIMIT BUY orders of a
\* shareholder in a company.
total_buy_orders_cost(db, shareholder_id, company_id) ==
    LET rows == Filter(db.orders, LAMBDA o : /\ o.shareholder_id = shareholder_id
                                             /\ o.company_id = company_id
                                             /\ o.order_type = BUY
                                             /\ o.order_subtype = LIMIT)
    IN SumSeq([i \in 1..Len(rows) |-> rows[i].shares * rows[i].price])

\* create_order's checks with an availability that forgets the open BUY
\* orders of the shareholder.
create_order_check_ignoring_buy_orders(db, order) ==
    IF order.shareholder_id \notin DOMAIN db.cash THEN "Shareholder not found"
    ELSE IF order.company_id \notin DOMAIN db.stock_price THEN "Company not found"
    ELSE IF order.order_type = BUY THEN
        LET total_cost == order.shares * order.price
            available_shares ==
                db.outstanding_shares[order.company_id]
                  - get_portfolio_shares(db, order.shareholder_id, order.company_id)
        IN  IF order.order_subtype = LIMIT
               /\ db.cash[order.shareholder_id] < total_cost
            THEN "Insufficient funds"
            ELSE IF order.shares > available_shares
            THEN "Not enough available shares"
            ELSE IF order.order_subtype = LIMIT
                    /\ total_buy_orders_cost(db, order.shareholder_id,
                                             order.company_id) + total_cost
                       > db.cash[order.shareholder_id]
            THEN "Insufficient funds for all buy orders"
            ELSE "ok"
    ELSE
        IF \/ ~has_portfolio(db, order.shareholder_id, order.company_id)
           \/ get_portfolio_shares(db, order.shareholder_id, order.company_id)
                < order.shares
        THEN "Insufficient shares"
        ELSE "ok"

\* --------------------------------------------------------------- admission
\* What crud.create_order answers before it inserts anything: "ok" or the
\* reason of the first failing check.
create_order_check(db, order) ==
    IF order.shareholder_id \notin DOMAIN db.cash THEN "Shareholder not found"
    ELSE IF order.company_id \notin DOMAIN db.stock_price THEN "Company not found"
    ELSE IF order.order_type = BUY THEN
        LET total_cost == order.shares * order.price
            current_shares ==
                get_portfolio_shares(db, order.shareholder_id, order.company_id)
            current_buy_orders ==
                order_shares_sum(db, order.shareholder_id, order.company_id, BUY)
            available_shares ==
                db.outstanding_shares[order.company_id] - current_shares
                    - current_buy_orders
        IN  \* order.shares * None raises TypeError
            IF order.order_subtype = LIMIT /\ order.price = None
            THEN "TypeError"
            ELSE IF order.order_subtype = LIMIT
               /\ db.cash[order.shareholder_id] < total_cost
            THEN "Insufficient funds"
            ELSE IF order.shares > available_shares
            THEN "Not enough available shares"
            ELSE IF order.order_subtype = LIMIT
                    /\ total_buy_orders_cost(db, order.shareholder_id,
                                             order.company_id) + total_cost
                       > db.cash[order.shareholder_id]
            THEN "Insufficient funds for all buy orders"
            ELSE "ok"
    ELSE
        IF \/ ~has_portfolio(db, order.shareholder_id, order.company_id)
           \/ get_portfolio_shares(db, order.shareholder_id, order.company_id)
                < order.shares
        THEN "Insufficient shares"
        ELSE "ok"

\* An Order row that keeps whatever price the request carried.
new_order_keeping_price(order, id) ==
    [id |-> id,
     shareholder_id |-> order.shareholder_id,
     company_id |-> order.company_id,
     order_type |-> order.order_type,
     order_subtype |-> order.order_subtype,
     shares |-> order.shares,
     price |-> order.price]

\* The Order row crud.create_order builds once every check has passed.
new_order(order, id) ==
    [id |-> id,
     shareholder_id |-> order.shareholder_id,
     company_id |-> order.company_id,
     order_type |-> order.order_type,
     order_subtype |-> order.order_subtype,
     shares |-> order.shares,
     price |-> IF order.order_subtype = LIMIT THEN order.price ELSE None]

\* The requests (OrderCreate values) the model submits.
OrderCreate ==
    [shareholder_id : Shareholders, company_id : Companies,
     order_type : {BUY, SELL}, order_subtype : {LIMIT},
     shares : 1..MaxShares, price : Prices]
    \cup
    [shareholder_id : Shareholders, company_id : Companies,
     order_type : {BUY, SELL}, order_subtype : {MARKET},
     shares : 1..MaxShares, price : {None}]
    \cup
    [shareholder_id : Shareholders, company_id : Companies,
     order_type : {BUY, SELL}, order_subtype : {MARKET},
     shares : {1}, price : {10}]
    \cup
    [shareholder_id : {UnknownShareholder}, company_id : Companies,
     order_type : {BUY}, order_subtype : {MARKET},
     shares : {1}, price : {None}]
    \cup
    [shareholder_id : Shareholders, company_id : {UnknownCompany},
     order_type : {SELL}, order_subtype : {MARKET},
     shares : {1}, price : {None}]

Idle == [phase |-> "idle"]

\* An orders table that receives the row whatever the checks answered.
create_order_rows_always(db, order, reason, id) ==
    Append(db.orders,
           [id |-> id,
            shareholder_id |-> order.shareholder_id,
            company_id |-> order.company_id,
            order_type |-> order.order_type,
            order_subtype |-> order.order_subtype,
            shares |-> order.shares,
            price |-> IF order.order_subtype = LIMIT THEN order.price ELSE None])

\* The orders table crud.create_order leaves: the new row appended when the
\* checks answered "ok", the table as it was on a rejection.
create_order_rows(db, order, reason, id) ==
    IF reason = "ok" THEN Append(db.orders, new_order(order, id)) ELSE db.orders

\* crud.create_order: returns (order, None) or (None, reason).  Nothing
\* makes it wait for an execute_market_order under way in another session.
create_order(order, max_id) ==
    /\ next_id <= max_id
    /\ LET reason == create_order_check(DB, order) IN
        /\ call' = [op |-> "create_order", order |-> order]
        /\ orders' = create_order_rows(DB, order, reason, next_id)
        /\ IF reason = "ok"
           THEN /\ next_id' = next_id + 1
                /\ ret' = [ok |-> TRUE, error |-> "None", id |-> next_id]
           ELSE /\ UNCHANGED next_id
                /\ ret' = [ok |-> FALSE, error |-> reason, id |-> 0]
    /\ UNCHANGED <<cash, portfolios, stock_price, outstanding_shares,
                   transactions, fills, tx_head, fill>>
    /\ UNCHANGED corporate

\* A cancellation that reports success and leaves the row in the table.
cancel_order_keeping_row(order_id) ==
    /\ fill = Idle
    /\ call' = [op |-> "cancel_order", order_id |-> order_id]
    /\ UNCHANGED orders
    /\ ret' = [ok |-> \E i \in 1..Len(orders) : orders[i].id = order_id,
               error |-> "None", id |-> order_id]
    /\ UNCHANGED <<cash, portfolios, stock_price, outstanding_shares,
                   transactions, fills, tx_head, next_id, fill>>
    /\ UNCHANGED corporate

\* crud.cancel_order: True if the row existed and was deleted, else False.
cancel_order(order_id) ==
    /\ fill = Idle
    /\ call' = [op |-> "cancel_order", order_id |-> order_id]
    /\ IF \E i \in 1..Len(orders) : orders[i].id = order_id
       THEN /\ orders' = Filter(orders, LAMBDA o : o.id # order_id)
            /\ ret' = [ok |-> TRUE, error |-> "None", id |-> order_id]
       ELSE /\ UNCHANGED orders
            /\ ret' = [ok |-> FALSE, error |-> "None", id |-> order_id]
    /\ UNCHANGED <<cash, portfolios, stock_price, outstanding_shares,
                   transactions, fills, tx_head, next_id, fill>>
    /\ UNCHANGED corporate

\* ---------------------------------------------------------------- ledger
\* crud.update_shareholder_portfolio: add shares_change to the row, delete the
\* row when it falls to zero or below, create it for a first purchase; a
\* decrement with no row does nothing.
update_shareholder_portfolio(db, shareholder_id, company_id, shares_change) ==
    LET key == <<shareholder_id, company_id>>
        pf == db.portfolios
    IN  IF key \in DOMAIN pf
        THEN IF pf[key] + shares_change <= 0
             THEN [db EXCEPT !.portfolios = [k \in DOMAIN pf \ {key} |-> pf[k]]]
             ELSE [db EXCEPT !.portfolios[key] = @ + shares_change]
        ELSE IF shares_change > 0
             THEN [db EXCEPT !.portfolios =
                      [k \in DOMAIN pf \cup {key} |->
                          IF k = key THEN shares_change ELSE pf[k]]]
             ELSE db

\* crud.update_shareholder_cash: add cash_change if the shareholder exists.
update_shareholder_cash(db, shareholder_id, cash_change) ==
    IF shareholder_id \in DOMAIN db.cash
    THEN [db EXCEPT !.cash[shareholder_id] = @ + cash_change]
    ELSE db

\* settle_step with the seller credited one unit short of shares x price.
settle_step_short_credit(db, tx, k) ==
    CASE k = 1 -> update_shareholder_portfolio(db, tx.buyer_id, tx.company_id,
                                               tx.shares)
      [] k = 2 -> update_shareholder_portfolio(db, tx.seller_id, tx.company_id,
                                               -tx.shares)
      [] k = 3 -> update_shareholder_cash(db, tx.buyer_id,
                                          -(tx.shares * tx.price_per_share))
      [] k = 4 -> update_shareholder_cash(db, tx.seller_id,
                                          tx.shares * tx.price_per_share - 1)

\* The four ledger updates of one fill, in the order both execute_trade and
\* execute_market_order make them; each of them ends with its own db.commit().
settle_step(db, tx, k) ==
    CASE k = 1 -> update_shareholder_portfolio(db, tx.buyer_id, tx.company_id,
                                               tx.shares)
      [] k = 2 -> update_shareholder_portfolio(db, tx.seller_id, tx.company_id,
                                               -tx.shares)
      [] k = 3 -> update_shareholder_cash(db, tx.buyer_id,
                                          -(tx.shares * tx.price_per_share))
      [] k = 4 -> update_shareholder_cash(db, tx.seller_id,
                                          tx.shares * tx.price_per_share)

settle(db, tx) ==
    settle_step(settle_step(settle_step(settle_step(db, tx, 1), tx, 2), tx, 3),
                tx, 4)

\* db.add(Transaction(id=str(uuid.uuid4()), ...)): the row is appended; its
\* random id is either the greatest of the company's transaction ids or not
\* (the first transaction of a company always is), hence a set of outcomes.
\* `how` is the history entry kept beside the row.
add_transaction(db, tx, how) ==
    LET n == Len(db.transactions) + 1
        added == [db EXCEPT !.transactions = Append(@, tx),
                            !.fills = Append(@, how)]
        newest == [added EXCEPT !.tx_head[tx.company_id] = n]
    IN  IF db.tx_head[tx.company_id] = 0 THEN {newest} ELSE {newest, added}

\* ------------------------------------------------------------- order book
has_order(db, id) == \E i \in 1..Len(db.orders) : db.orders[i].id = id

get_order(db, id) ==
    db.orders[CHOOSE i \in 1..Len(db.orders) : db.orders[i].id = id]

\* order.shares of an Order object held by a running pass: the row's value,
\* or the 0 it had when it was deleted.
order_shares(db, id) == IF has_order(db, id) THEN get_order(db, id).shares ELSE 0

\* order.shares -= n, then db.delete(order) if it reached 0 (execute_trade,
\* and the opposing order of a market fill).
reduce_order(db, id, n) ==
    LET i == CHOOSE j \in 1..Len(db.orders) : db.orders[j].id = id IN
    IF db.orders[i].shares - n = 0
    THEN [db EXCEPT !.orders = Filter(@, LAMBDA o : o.id # id)]
    ELSE [db EXCEPT !.orders[i].shares = @ - n]

\* order.shares -= executed_shares of the market order itself: kept while
\* shares > 0, deleted otherwise.
reduce_market_order(db, id, n) ==
    LET i == CHOOSE j \in 1..Len(db.orders) : db.orders[j].id = id IN
    IF db.orders[i].shares - n > 0
    THEN [db EXCEPT !.orders[i].shares = @ - n]
    ELSE [db EXCEPT !.orders = Filter(@, LAMBDA o : o.id # id)]

RECURSIVE insert_by_price(_, _, _)
\* o placed into the sorted sequence s behind every row that does not sort
\* after it (dir = 1: ascending price, dir = -1: descending).
insert_by_price(o, s, dir) ==
    IF s = <<>> THEN <<o>>
    ELSE IF dir * o.price < dir * Head(s).price THEN <<o>> \o s
    ELSE <<Head(s)>> \o insert_by_price(o, Tail(s), dir)

RECURSIVE order_by_price(_, _)
\* .order_by(Order.price.asc()) / .desc(); rows of equal price keep their
\* insertion order.
order_by_price(s, dir) ==
    IF s = <<>> THEN <<>>
    ELSE insert_by_price(s[Len(s)], order_by_price(SubSeq(s, 1, Len(s) - 1), dir),
                         dir)

limit_orders(db, company_id, order_type) ==
    Filter(db.orders, LAMBDA o : /\ o.company_id = company_id
                                 /\ o.order_type = order_type
                                 /\ o.order_subtype = LIMIT)

market_orders(db, company_id, order_type) ==
    Filter(db.orders, LAMBDA o : /\ o.company_id = company_id
                                 /\ o.order_type = order_type
                                 /\ o.order_subtype = MARKET)

\* ------------------------------------------------------------ price oracle
\* Price of the company's Transaction that comes first by id descending, or
\* the stock price when the company has no transaction.
last_price(db, company_id) ==
    IF db.tx_head[company_id] # 0
    THEN db.transactions[db.tx_head[company_id]].price_per_share
    ELSE db.stock_price[company_id]

\* crud.update_stock_price.
update_stock_price(db, company_id) ==
    LET sells == order_by_price(limit_orders(db, company_id, SELL), 1)
        new_price == IF sells # <<>> THEN sells[1].price
                     ELSE last_price(db, company_id)
    IN  [db EXCEPT !.stock_price[company_id] = new_price]

\* --------------------------------------------------------- matching engine
\* The opposing LIMIT orders execute_market_order walks for a market order:
\* for a BUY the SELL limits priced <= 1.1 x last price, cheapest first; for a
\* SELL the BUY limits priced >= 0.9 x last price, dearest first.
opposing_orders(db, order) ==
    LET last == last_price(db, order.company_id) IN
    IF order.order_type = BUY
    THEN order_by_price(
            Filter(limit_orders(db, order.company_id, SELL),
                   LAMBDA o : 10 * o.price <= 11 * last), 1)
    ELSE order_by_price(
            Filter(limit_orders(db, order.company_id, BUY),
                   LAMBDA o : 10 * o.price >= 9 * last), -1)

\* The smaller of the two remainders, whatever the buyer can afford.
market_trade_shares_uncapped(db, order, opposing_order, executed) ==
    Min(opposing_order.shares, order.shares - executed)

\* Shares execute_market_order trades against one opposing order when
\* `executed` shares of the market order are already filled: the smaller of
\* the two remainders, for a BUY cut down to int(buyer.cash // price).
market_trade_shares(db, order, opposing_order, executed) ==
    LET wanted == Min(opposing_order.shares, order.shares - executed)
        max_affordable_shares ==
            db.cash[order.shareholder_id] \div opposing_order.price
    IN  IF order.order_type = BUY /\ max_affordable_shares < wanted
        THEN max_affordable_shares
        ELSE wanted

\* The Transaction row of a fill of a market order against opposing_order.
market_transaction(order, opposing_order, trade_shares) ==
    [buyer_id |-> IF order.order_type = BUY THEN order.shareholder_id
                  ELSE opposing_order.shareholder_id,
     seller_id |-> IF order.order_type = BUY THEN opposing_order.shareholder_id
                   ELSE order.shareholder_id,
     company_id |-> order.company_id,
     shares |-> trade_shares,
     price_per_share |-> opposing_order.price]

\* What the first commit of a fill makes visible: the new Transaction and the
\* reduced opposing order (the buyer's portfolio update rides on the same
\* commit and is settle_step 1).
book_fill(db, tx, opposing_id, how) ==
    { reduce_order(d, opposing_id, tx.shares) : d \in add_transaction(db, tx, how) }

\* History entry of a fill: the phase of the pass and the two orders matched.
fill_note(phase, buy_order, sell_order) ==
    [phase |-> phase,
     buy_order |-> buy_order.id, buy_price |-> buy_order.price,
     sell_order |-> sell_order.id, sell_price |-> sell_order.price]

market_fill_note(order, opposing_order) ==
    IF order.order_type = BUY
    THEN fill_note("market_buy", order, opposing_order)
    ELSE fill_note("market_sell", opposing_order, order)

RECURSIVE market_loop(_, _, _, _, _)
\* The "for opposing_order in opposing_orders" loop of execute_market_order
\* from position i on; yields the possible [db, executed] at loop exit.
market_loop(db, order, opposing, i, executed) ==
    IF i > Len(opposing) \/ executed >= order.shares
    THEN {[db |-> db, executed |-> executed]}
    ELSE
        LET opposing_order == get_order(db, opposing[i].id)
            trade_shares == market_trade_shares(db, order, opposing_order, executed)
            tx == market_transaction(order, opposing_order, trade_shares)
        IN  IF order.order_type = BUY /\ trade_shares = 0
            THEN market_loop(db, order, opposing, i + 1, executed)
            ELSE UNION { market_loop(settle(d, tx), order, opposing, i + 1,
                                     executed + trade_shares)
                         : d \in book_fill(db, tx, opposing_order.id,
                                            market_fill_note(order, opposing_order)) }

\* services.order_matching.execute_market_order on the open order order_id:
\* the set of states it can leave (one per outcome of the transaction ids).
execute_market_order(db, order_id) ==
    LET order == get_order(db, order_id)
        opposing == opposing_orders(db, order)
    IN  IF opposing = <<>> THEN {db}
        ELSE { update_stock_price(
                   reduce_market_order(r.db, order_id, r.executed),
                   order.company_id)
               : r \in market_loop(db, order, opposing, 1, 0) }

\* A limit crossing that settles min(buy, sell) whatever the buyer can hold
\* or pay.
trade_shares_of_uncapped(db, buy_order, sell_order) ==
    Min(order_shares(db, buy_order.id), order_shares(db, sell_order.id))

\* Shares execute_trade settles for a BUY limit and a SELL limit (0 or less:
\* it returns without trading).
trade_shares_of(db, buy_order, sell_order) ==
    LET wanted == Min(order_shares(db, buy_order.id), order_shares(db, sell_order.id))
        buyer_max_shares ==
            db.outstanding_shares[buy_order.company_id]
              - get_portfolio_shares(db, buy_order.shareholder_id,
                                     buy_order.company_id)
        capped == IF wanted > buyer_max_shares THEN buyer_max_shares ELSE wanted
        buyer_cash == db.cash[buy_order.shareholder_id]
    IN  IF buyer_cash < capped * sell_order.price
        THEN buyer_cash \div sell_order.price
        ELSE capped

\* A limit crossing that trades at the BUY order's price.
execute_trade_at_buy_price(db, buy_order, sell_order) ==
    LET trade_shares == trade_shares_of(db, buy_order, sell_order)
        tx == [buyer_id |-> buy_order.shareholder_id,
               seller_id |-> sell_order.shareholder_id,
               company_id |-> buy_order.company_id,
               shares |-> trade_shares,
               price_per_share |-> buy_order.price]
    IN  IF trade_shares <= 0 THEN {db}
        ELSE { [settle(reduce_order(reduce_order(d, buy_order.id, trade_shares),
                                    sell_order.id, trade_shares), tx)
                  EXCEPT !.stock_price[buy_order.company_id] = buy_order.price]
               : d \in add_transaction(db, tx,
                                        fill_note("limit", buy_order, sell_order)) }

\* A limit crossing that settles one share at a time.
execute_trade_one_share(db, buy_order, sell_order) ==
    LET trade_shares == Min(1, trade_shares_of(db, buy_order, sell_order))
        tx == [buyer_id |-> buy_order.shareholder_id,
               seller_id |-> sell_order.shareholder_id,
               company_id |-> buy_order.company_id,
               shares |-> trade_shares,
               price_per_share |-> sell_order.price]
    IN  IF trade_shares <= 0 THEN {db}
        ELSE { [settle(reduce_order(reduce_order(d, buy_order.id, trade_shares),
                                    sell_order.id, trade_shares), tx)
                  EXCEPT !.stock_price[buy_order.company_id] = sell_order.price]
               : d \in add_transaction(db, tx,
                                        fill_note("limit", buy_order, sell_order)) }

\* services.order_matching.execute_trade: trade at the SELL order's price.
execute_trade(db, buy_order, sell_order) ==
    LET trade_shares == trade_shares_of(db, buy_order, sell_order)
        tx == [buyer_id |-> buy_order.shareholder_id,
               seller_id |-> sell_order.shareholder_id,
               company_id |-> buy_order.company_id,
               shares |-> trade_shares,
               price_per_share |-> sell_order.price]
    IN  IF trade_shares <= 0 THEN {db}
        ELSE { [settle(reduce_order(reduce_order(d, buy_order.id, trade_shares),
                                    sell_order.id, trade_shares), tx)
                  EXCEPT !.stock_price[buy_order.company_id] = sell_order.price]
               : d \in add_transaction(db, tx,
                                        fill_note("limit", buy_order, sell_order)) }

RECURSIVE limit_loop(_, _, _, _, _)
\* The nested loops of match_orders over the BUY limits (dearest first) and
\* the SELL limits (cheapest first), from buy i and sell j on.
limit_loop(db, buys, sells, i, j) ==
    IF i > Len(buys) THEN {db}
    ELSE IF j > Len(sells) THEN limit_loop(db, buys, sells, i + 1, 1)
    ELSE IF buys[i].price >= sells[j].price
    THEN UNION { IF order_shares(d, buys[i].id) = 0
                 THEN limit_loop(
                          [d EXCEPT !.orders = Filter(@, LAMBDA o : o.id # buys[i].id)],
                          buys, sells, i + 1, 1)
                 ELSE limit_loop(d, buys, sells, i, j + 1)
                 : d \in execute_trade(db, buys[i], sells[j]) }
    ELSE limit_loop(db, buys, sells, i + 1, 1)

RECURSIVE market_phase(_, _)
\* "for market_order in market_orders: execute_market_order(...)".
market_phase(S, ids) ==
    IF ids = <<>> THEN S
    ELSE market_phase(UNION { execute_market_order(d, Head(ids)) : d \in S },
                      Tail(ids))

order_ids(rows) == [i \in 1..Len(rows) |-> rows[i].id]

\* A pass that crosses the limit orders first and executes the market orders
\* afterwards.
match_orders_result_limits_first(db, company_id) ==
    LET after_limits ==
            limit_loop(db,
                       order_by_price(limit_orders(db, company_id, BUY), -1),
                       order_by_price(limit_orders(db, company_id, SELL), 1),
                       1, 1)
        after_buys ==
            UNION { market_phase({d}, order_ids(market_orders(d, company_id, BUY)))
                    : d \in after_limits }
        after_sells ==
            UNION { market_phase({d}, order_ids(market_orders(d, company_id, SELL)))
                    : d \in after_buys }
    IN  { update_stock_price(d, company_id) : d \in after_sells }

\* services.order_matching.match_orders: market BUYs, then market SELLs, then
\* limit crossing, then the price refresh.
match_orders_result(db, company_id) ==
    LET after_buys ==
            market_phase({db}, order_ids(market_orders(db, company_id, BUY)))
        after_sells ==
            UNION { market_phase({d}, order_ids(market_orders(d, company_id, SELL)))
                    : d \in after_buys }
        after_limits ==
            UNION { limit_loop(d,
                               order_by_price(limit_orders(d, company_id, BUY), -1),
                               order_by_price(limit_orders(d, company_id, SELL), 1),
                               1, 1)
                    : d \in after_sells }
    IN  { update_stock_price(d, company_id) : d \in after_limits }

\* The valid opposing LIMIT orders cleanup_invalid_market_orders looks for:
\* priced between 0.9 x and 1.1 x last price.
valid_orders(db, order) ==
    LET last == last_price(db, order.company_id) IN
    Filter(limit_orders(db, order.company_id,
                        IF order.order_type = BUY THEN SELL ELSE BUY),
           LAMBDA o : 10 * o.price >= 9 * last /\ 10 * o.price <= 11 * last)

\* services.order_matching.cleanup_invalid_market_orders.
cleanup_result(db) ==
    [db EXCEPT !.orders =
        Filter(@, LAMBDA o : o.order_subtype # MARKET \/ valid_orders(db, o) # <<>>)]

\* The variables take the rows of d.
Commit(d) ==
    /\ cash' = d.cash
    /\ portfolios' = d.portfolios
    /\ stock_price' = d.stock_price
    /\ outstanding_shares' = d.outstanding_shares
    /\ orders' = d.orders
    /\ transactions' = d.transactions
    /\ fills' = d.fills
    /\ tx_head' = d.tx_head

NoReturn == [ok |-> TRUE, error |-> "None", id |-> 0]

\* execute_market_order raises ZeroDivisionError at "buyer.cash // trade_price"
\* (line 207): a BUY with shares left to fill whose cheapest opposing order is
\* priced 0. The division is the first statement of the first iteration that
\* touches the database, so nothing of this order is written.
market_order_raises(db, order_id) ==
    LET order == get_order(db, order_id)
        opposing == opposing_orders(db, order)
    IN  /\ order.order_type = BUY
        /\ opposing # <<>>
        /\ order.shares > 0
        /\ opposing[1].price = 0

RECURSIVE market_phase_raising(_, _)
\* The market BUY loop of match_orders with the exceptions its
\* "except ValueError" does not catch: the states at the end of the loop
\* (error "None") and those in which an order raised and the pass ended.
market_phase_raising(S, ids) ==
    IF ids = <<>> THEN {[db |-> d, error |-> "None"] : d \in S}
    ELSE LET raising == {d \in S : market_order_raises(d, Head(ids))}
         IN  {[db |-> d, error |-> "ZeroDivisionError"] : d \in raising}
             \cup market_phase_raising(
                      UNION { execute_market_order(d, Head(ids))
                              : d \in S \ raising },
                      Tail(ids))

\* services.order_matching.match_orders with the exception that ends it: a
\* pass over a book without a LIMIT SELL priced 0 cannot divide by zero and
\* is match_orders_result. With such an order in the book every market BUY
\* with shares to fill raises, so the market BUY loop ends without an
\* exception only when it emptied the market BUY side (orders of 0 shares
\* are deleted), and the rest of the pass is match_orders_result on what it
\* left. (execute_trade divides by the SELL price only for a buyer whose cash
\* is below 0.)
match_orders_outcome(db, company_id) ==
    IF \A i \in DOMAIN limit_orders(db, company_id, SELL) :
           limit_orders(db, company_id, SELL)[i].price # 0
    THEN {[db |-> d, error |-> "None"] : d \in match_orders_result(db, company_id)}
    ELSE LET after_buys ==
                 market_phase_raising(
                     {db}, order_ids(market_orders(db, company_id, BUY)))
         IN  {r \in after_buys : r.error # "None"}
             \cup
             {[db |-> d, error |-> "None"]
              : d \in UNION { match_orders_result(r.db, company_id)
                              : r \in {x \in after_buys : x.error = "None"} }}

\* One run of match_orders for a company, start to finish.
match_orders(company_id) ==
    /\ fill = Idle
    /\ \E r \in match_orders_outcome(DB, company_id) :
          /\ Commit(r.db)
          /\ ret' = IF r.error = "None" THEN NoReturn
                    ELSE [ok |-> FALSE, error |-> r.error, id |-> 0]
    /\ call' = [op |-> "match_orders", company_id |-> company_id,
                transactions_before |-> Len(transactions)]
    /\ UNCHANGED <<next_id, fill>>
    /\ UNCHANGED corporate

\* One run of cleanup_invalid_market_orders.
cleanup_invalid_market_orders ==
    /\ fill = Idle
    /\ Commit(cleanup_result(DB))
    /\ call' = [op |-> "cleanup_invalid_market_orders"]
    /\ ret' = NoReturn
    /\ UNCHANGED <<next_id, fill>>
    /\ UNCHANGED corporate

\* ------------------------------------------------------ company creation
\* last_dividend_payout_date of a new company: the creation time, which is
\* no simulated date.
CreationTime == [year |-> 0, month |-> 0, day |-> 0]

\* A table keyed by id that has received one more row.
with_row(rows, key, value) ==
    [k \in DOMAIN rows \cup {key} |-> IF k = key THEN value ELSE rows[k]]

\* The company row alone: the founder's Portfolio row is not added.
company_rows_without_portfolio(db, company_id, initial_stock_price, initial_shares, founder_id) ==
    [db EXCEPT !.stock_price = with_row(@, company_id, initial_stock_price),
               !.outstanding_shares = with_row(@, company_id, initial_shares),
               !.tx_head = with_row(@, company_id, 0)]

\* db.add(db_company); db.add(db_portfolio); db.commit(): the company row
\* and the founder's Portfolio row holding all the initial shares.
company_rows(db, company_id, initial_stock_price, initial_shares, founder_id) ==
    [db EXCEPT !.stock_price = with_row(@, company_id, initial_stock_price),
               !.outstanding_shares = with_row(@, company_id, initial_shares),
               !.tx_head = with_row(@, company_id, 0),
               !.portfolios = with_row(@, <<founder_id, company_id>>,
                                       initial_shares)]

\* Both create_company functions: nothing is written for an unknown founder
\* (crud returns None, the endpoint answers 404); otherwise the company gets
\* a fresh uuid4 and its rows are committed together.  `op` names the caller.
create_company_as(op, not_found, initial_stock_price, initial_shares, founder_id) ==
    /\ fill = Idle
    /\ call' = [op |-> op, founder_id |-> founder_id,
                initial_shares |-> initial_shares,
                initial_stock_price |-> initial_stock_price]
    /\ IF founder_id \notin Shareholders
       THEN /\ ret' = [ok |-> FALSE, error |-> not_found, id |-> 0]
            /\ UNCHANGED <<cash, portfolios, stock_price, outstanding_shares,
                           orders, transactions, fills, tx_head>>
            /\ UNCHANGED <<dividend_account, dividends_paid,
                           last_dividend_payout_date>>
       ELSE \E company_id \in CompanyIds \ Companies :
            /\ Commit(company_rows(DB, company_id, initial_stock_price,
                                   initial_shares, founder_id))
            /\ dividend_account' = with_row(dividend_account, company_id, 0)
            /\ dividends_paid' = with_row(dividends_paid, company_id, 0)
            /\ last_dividend_payout_date' =
                    with_row(last_dividend_payout_date, company_id, CreationTime)
            /\ ret' = NoReturn
    /\ UNCHANGED <<next_id, fill, simulation_date>>

\* crud.create_company.
create_company(initial_stock_price, initial_shares, founder_id) ==
    create_company_as("create_company", "None", initial_stock_price,
                      initial_shares, founder_id)

\* main.create_company, POST /companies.
post_companies(initial_stock_price, initial_shares, founder_id) ==
    create_company_as("post_companies", "Founder not found",
                      initial_stock_price, initial_shares, founder_id)

\* ------------------------------------------- main.py: POST /orders
\* `order.price or company.stock_price`.
price_or_stock_price(db, o) ==
    IF o.price = None THEN db.stock_price[o.company_id] ELSE o.price

\* The checks of main.create_order with the funds test left out.
post_orders_check_without_funds(db, order) ==
    IF \/ order.shareholder_id \notin DOMAIN db.cash
       \/ order.company_id \notin DOMAIN db.stock_price
    THEN "Shareholder or company not found"
    ELSE
    LET held == get_portfolio_shares(db, order.shareholder_id, order.company_id)
        existing_order_shares ==
            order_shares_sum(db, order.shareholder_id, order.company_id,
                             order.order_type)
    IN  IF order.order_type = SELL /\ held < order.shares
        THEN "Insufficient shares"
        ELSE IF order.order_subtype = LIMIT /\ order.price = None
        THEN "Price is required for limit orders"
        ELSE IF /\ order.order_type = BUY
                /\ existing_order_shares + order.shares
                     > db.outstanding_shares[order.company_id]
        THEN "Total buy orders exceed company's outstanding shares"
        ELSE IF /\ order.order_type = SELL
                /\ existing_order_shares + order.shares > held
        THEN "Total sell orders exceed owned shares"
        ELSE "ok"

\* The checks of main.create_order, in their order; "ok" or the detail of
\* the HTTPException raised.
post_orders_check(db, order) ==
    IF \/ order.shareholder_id \notin DOMAIN db.cash
       \/ order.company_id \notin DOMAIN db.stock_price
    THEN "Shareholder or company not found"
    ELSE
    LET held == get_portfolio_shares(db, order.shareholder_id, order.company_id)
        existing_order_shares ==
            order_shares_sum(db, order.shareholder_id, order.company_id,
                             order.order_type)
        order_price == IF order.order_subtype = LIMIT THEN order.price
                       ELSE db.stock_price[order.company_id]
        total_cost == existing_order_shares * order_price
                        + order.shares * order_price
    IN  IF order.order_type = SELL /\ held < order.shares
        THEN "Insufficient shares"
        ELSE IF order.order_subtype = LIMIT /\ order.price = None
        THEN "Price is required for limit orders"
        ELSE IF /\ order.order_type = BUY
                /\ existing_order_shares + order.shares
                     > db.outstanding_shares[order.company_id]
        THEN "Total buy orders exceed company's outstanding shares"
        ELSE IF /\ order.order_type = BUY
                /\ db.cash[order.shareholder_id] < total_cost
        THEN "Insufficient funds for order"
        ELSE IF /\ order.order_type = SELL
                /\ existing_order_shares + order.shares > held
        THEN "Total sell orders exceed owned shares"
        ELSE "ok"

\* db_order = Order(id=..., ..., price=order.price): the price as sent.
posted_order(order, id) ==
    [id |-> id,
     shareholder_id |-> order.shareholder_id,
     company_id |-> order.company_id,
     order_type |-> order.order_type,
     order_subtype |-> order.order_subtype,
     shares |-> order.shares,
     price |-> order.price]

\* main.clean_up_orders: the BUY orders of the company whose owner cannot
\* pay them and the SELL orders whose owner holds fewer shares than the
\* order offers are deleted.
clean_up_orders(db, company_id) ==
    [db EXCEPT !.orders =
        Filter(@, LAMBDA o :
            ~ /\ o.company_id = company_id
              /\ \/ /\ o.order_type = BUY
                    /\ db.cash[o.shareholder_id]
                         < o.shares * price_or_stock_price(db, o)
                 \/ /\ o.order_type = SELL
                    /\ \/ ~has_portfolio(db, o.shareholder_id, company_id)
                       \/ get_portfolio_shares(db, o.shareholder_id, company_id)
                            < o.shares)]

\* main.update_company_shares.
update_company_shares(db, company_id) ==
    [db EXCEPT !.outstanding_shares[company_id] =
                    get_total_shares_held(db, company_id)]

\* The rows main.execute_transaction changes before its commit: cash moves
\* from buyer to seller, the buyer's Portfolio row grows or is created, the
\* seller's shrinks and is deleted at exactly 0, the stock price becomes the
\* transaction's price.
transaction_rows(db, tx) ==
    LET total_price == tx.shares * tx.price_per_share
        buyer == <<tx.buyer_id, tx.company_id>>
        seller == <<tx.seller_id, tx.company_id>>
        paid == [db.cash EXCEPT ![tx.buyer_id] = @ - total_price]
        bought == IF buyer \in DOMAIN db.portfolios
                  THEN [db.portfolios EXCEPT ![buyer] = @ + tx.shares]
                  ELSE with_row(db.portfolios, buyer, tx.shares)
        sold == [bought EXCEPT ![seller] = @ - tx.shares]
    IN  [db EXCEPT
            !.cash = [paid EXCEPT ![tx.seller_id] = @ + total_price],
            !.portfolios = IF sold[seller] = 0
                           THEN [k \in DOMAIN sold \ {seller} |-> sold[k]]
                           ELSE sold,
            !.stock_price[tx.company_id] = tx.price_per_share]

\* main.execute_transaction for a seller that has a Portfolio row: the rows
\* above and the Transaction are committed, then clean_up_orders and
\* update_company_shares run and commit.
execute_transaction(db, tx, how) ==
    { update_company_shares(clean_up_orders(d, tx.company_id), tx.company_id) :
        d \in add_transaction(transaction_rows(db, tx), tx, how) }

\* What the endpoint leaves and answers.
answer(db, ok, error) == [db |-> db, ok |-> ok, error |-> error]

\* After the loop of main.execute_market_order: db.commit(), then 400 if
\* nothing was executed.
after_market_loop(session, executed_shares) ==
    IF executed_shares = 0
    THEN {answer(session, FALSE, "Could not execute market order")}
    ELSE {answer(session, TRUE, "None")}

\* A plain break whenever the buyer cannot pay a fill.
unaffordable_fill_breaking(committed, session, executed_shares) ==
    after_market_loop(session, executed_shares)

\* The buyer cannot pay total_cost + transaction_cost: 400 if nothing has
\* been executed yet, else break.
unaffordable_fill(committed, session, executed_shares) ==
    IF executed_shares = 0
    THEN {answer(committed, FALSE, "Insufficient funds for market order")}
    ELSE after_market_loop(session, executed_shares)

RECURSIVE immediate_loop(_, _, _, _, _, _, _)
\* "for matching_order in matching_orders" of main.execute_market_order.
\* `committed` holds the rows as of the last commit and `session` the rows
\* with the changes still pending (the matching order of the previous turn);
\* rows[i] is matching_order as loaded before the loop, used when its row
\* has since been deleted by clean_up_orders.  An exception inside
\* execute_transaction is answered by db.rollback() and HTTP 500; when
\* clean_up_orders has deleted the matching order itself, the Session
\* refuses the deleted instance in db.add(), and what db.delete() of it does
\* is left open (the request fails or the loop goes on).
immediate_loop(committed, session, order, rows, i, executed_shares, total_cost) ==
    IF i > Len(rows) \/ executed_shares >= order.shares
    THEN after_market_loop(session, executed_shares)
    ELSE
    LET matching_order == IF has_order(session, rows[i].id)
                          THEN get_order(session, rows[i].id) ELSE rows[i]
        transaction_shares == Min(matching_order.shares,
                                  order.shares - executed_shares)
        transaction_price == price_or_stock_price(session, matching_order)
        transaction_cost == transaction_shares * transaction_price
        transaction == [market_transaction(order, matching_order,
                                           transaction_shares)
                            EXCEPT !.price_per_share = transaction_price]
        next(d) ==
            IF has_order(d, matching_order.id)
            THEN immediate_loop(d, reduce_order(d, matching_order.id,
                                                transaction_shares),
                                order, rows, i + 1,
                                executed_shares + transaction_shares,
                                total_cost + transaction_cost)
            ELSE IF matching_order.shares - transaction_shares # 0
            THEN {answer(d, FALSE, "Internal Server Error")}
            ELSE {answer(d, FALSE, "Internal Server Error")}
                 \cup immediate_loop(d, d, order, rows, i + 1,
                                     executed_shares + transaction_shares,
                                     total_cost + transaction_cost)
    IN  IF /\ order.order_type = BUY
           /\ session.cash[order.shareholder_id] < total_cost + transaction_cost
        THEN unaffordable_fill(committed, session, executed_shares)
        ELSE IF ~has_portfolio(session, transaction.seller_id, order.company_id)
        THEN {answer(committed, FALSE, "Error executing transaction")}
        ELSE UNION { next(d) :
                       d \in execute_transaction(session, transaction,
                                   market_fill_note(order, matching_order)) }

\* db.query(Order) of the opposite side of the company, cheapest first for a
\* BUY and dearest first for a SELL.
matching_orders(db, order) ==
    order_by_price(
        Filter(db.orders, LAMBDA o :
            /\ o.company_id = order.company_id
            /\ o.order_type = IF order.order_type = BUY THEN SELL ELSE BUY),
        IF order.order_type = BUY THEN 1 ELSE -1)

\* main.execute_market_order for an order that is in no table.
immediate_market_order(db, order) ==
    IF matching_orders(db, order) = <<>>
    THEN {answer(db, FALSE, "No orders available for this company")}
    ELSE immediate_loop(db, db, order, matching_orders(db, order), 1, 0, 0)

\* main.create_order, POST /orders.  A MARKET order is executed at once and
\* never stored.  A LIMIT order is stored; the match_orders scheduled behind
\* it reads a Redis book that only match_orders itself fills, finds it empty
\* and changes nothing.
post_orders(order, max_id) ==
    /\ fill = Idle
    /\ next_id <= max_id
    /\ call' = [op |-> "post_orders", order |-> order]
    /\ LET reason == post_orders_check(DB, order) IN
       IF reason # "ok"
       THEN /\ ret' = [ok |-> FALSE, error |-> reason, id |-> 0]
            /\ UNCHANGED <<cash, portfolios, stock_price, outstanding_shares,
                           orders, transactions, fills, tx_head, next_id>>
       ELSE IF order.order_subtype = MARKET
       THEN \E a \in immediate_market_order(DB, posted_order(order, 0)) :
                /\ Commit(a.db)
                /\ ret' = [ok |-> a.ok, error |-> a.error, id |-> 0]
                /\ UNCHANGED next_id
       ELSE /\ orders' = Append(orders, posted_order(order, next_id))
            /\ next_id' = next_id + 1
            /\ ret' = [ok |-> TRUE, error |-> "None", id |-> next_id]
            /\ UNCHANGED <<cash, portfolios, stock_price, outstanding_shares,
                           transactions, fills, tx_head>>
    /\ UNCHANGED fill
    /\ UNCHANGED corporate

\* ------------------------------------------------- commits of a market fill
\* execute_market_order seen commit by commit.  Every crud.update_shareholder_*
\* call ends with db.commit(), so other sessions can read the tables between
\* the four ledger updates of one fill.  `fill` holds the locals of the run.

\* execute_market_order is entered for an open market order that has
\* opposing orders (with none it returns at once and changes nothing).
begin_market_order(order_id) ==
    /\ fill = Idle
    /\ has_order(DB, order_id)
    /\ get_order(DB, order_id).order_subtype = MARKET
    /\ opposing_orders(DB, get_order(DB, order_id)) # <<>>
    /\ fill' = [phase |-> "loop", order_id |-> order_id,
                opposing |-> order_ids(opposing_orders(DB, get_order(DB, order_id))),
                i |-> 1, executed |-> 0,
                last_price |->
                    last_price(DB, get_order(DB, order_id).company_id)]
    /\ call' = [op |-> "execute_market_order", order_id |-> order_id]
    /\ ret' = NoReturn
    /\ UNCHANGED <<cash, portfolios, stock_price, outstanding_shares, orders,
                   transactions, fills, tx_head, next_id>>
    /\ UNCHANGED corporate

\* One turn of the loop up to the first commit: the Transaction is added, the
\* opposing order reduced and the buyer's portfolio updated; or the opposing
\* order is skipped because the buyer can afford none of it.
market_fill_first_commit ==
    /\ fill.phase = "loop"
    /\ fill.i <= Len(fill.opposing)
    /\ LET order == get_order(DB, fill.order_id)
           opposing_order == get_order(DB, fill.opposing[fill.i])
           trade_shares ==
               market_trade_shares(DB, order, opposing_order, fill.executed)
           tx == market_transaction(order, opposing_order, trade_shares)
       IN  /\ fill.executed < order.shares
           /\ IF order.order_type = BUY /\ trade_shares = 0
              THEN /\ fill' = [fill EXCEPT !.i = @ + 1]
                   /\ UNCHANGED <<cash, portfolios, stock_price,
                                  outstanding_shares, orders, transactions,
                                  fills, tx_head>>
              ELSE /\ \E d \in book_fill(DB, tx, opposing_order.id,
                                         market_fill_note(order, opposing_order)) :
                          Commit(settle_step(d, tx, 1))
                   /\ fill' = [phase |-> "settling", order_id |-> fill.order_id,
                               opposing |-> fill.opposing, i |-> fill.i,
                               executed |-> fill.executed,
                               last_price |-> fill.last_price,
                               tx |-> tx, k |-> 2]
    /\ call' = [op |-> "execute_market_order", order_id |-> fill.order_id]
    /\ UNCHANGED <<next_id, ret>>
    /\ UNCHANGED corporate

\* The next ledger update of the fill, and its commit.
market_fill_next_commit ==
    /\ fill.phase = "settling"
    /\ Commit(settle_step(DB, fill.tx, fill.k))
    /\ fill' = IF fill.k < 4
               THEN [fill EXCEPT !.k = @ + 1]
               ELSE [phase |-> "loop", order_id |-> fill.order_id,
                     opposing |-> fill.opposing, i |-> fill.i + 1,
                     executed |-> fill.executed + fill.tx.shares,
                     last_price |-> fill.last_price]
    /\ call' = [op |-> "execute_market_order", order_id |-> fill.order_id]
    /\ UNCHANGED <<next_id, ret>>
    /\ UNCHANGED corporate

\* The loop is left: the market order is reduced, the price refreshed.
end_market_order ==
    /\ fill.phase = "loop"
    /\ \/ fill.i > Len(fill.opposing)
       \/ fill.executed >= get_order(DB, fill.order_id).shares
    /\ Commit(update_stock_price(
                  reduce_market_order(DB, fill.order_id, fill.executed),
                  get_order(DB, fill.order_id).company_id))
    /\ fill' = Idle
    /\ call' = [op |-> "execute_market_order", order_id |-> fill.order_id]
    /\ UNCHANGED <<next_id, ret>>
    /\ UNCHANGED corporate

\* -------------------------------------------------------------- stock split
\* The ratios "numerator:denominator" passed to execute_stock_split.
SplitRatios == {<<2, 1>>, <<1, 2>>}

\* shares * numerator // denominator
split_shares(shares, numerator, denominator) ==
    (shares * numerator) \div denominator

\* price * denominator / numerator, a Float in the source; the model follows
\* a split only when this is a whole number (see exact_split).
split_price(price, numerator, denominator) ==
    (price * denominator) \div numerator

\* The stock price and every limit price of the company's orders divide
\* without remainder, the new prices are within MaxPrice and the new
\* outstanding shares within MaxOutstanding.
exact_split(db, company_id, numerator, denominator) ==
    /\ (db.stock_price[company_id] * denominator) % numerator = 0
    /\ split_shares(db.outstanding_shares[company_id], numerator, denominator)
          <= MaxOutstanding
    /\ split_price(db.stock_price[company_id], numerator, denominator) <= MaxPrice
    /\ \A i \in 1..Len(db.orders) :
          db.orders[i].company_id = company_id /\ db.orders[i].price # None
             => /\ (db.orders[i].price * denominator) % numerator = 0
                /\ split_price(db.orders[i].price, numerator, denominator)
                      <= MaxPrice

\* A split that rescales the shares of the orders and leaves their prices.
split_order_keeping_price(o, numerator, denominator) ==
    [o EXCEPT !.shares = split_shares(@, numerator, denominator)]

\* One open order of the company after the split: "if order.price:" then
\* rescale it.
split_order(o, numerator, denominator) ==
    [o EXCEPT !.shares = split_shares(@, numerator, denominator),
              !.price = IF @ # None /\ @ # 0
                        THEN split_price(@, numerator, denominator) ELSE @]

\* A split that leaves the portfolios alone when it is a reverse split.
split_rows_skipping_reverse(db, company_id, numerator, denominator) ==
    [db EXCEPT
        !.outstanding_shares[company_id] =
            split_shares(@, numerator, denominator),
        !.stock_price[company_id] = split_price(@, numerator, denominator),
        !.portfolios =
            [k \in DOMAIN @ |->
                IF k[2] = company_id /\ numerator >= denominator
                THEN split_shares(@[k], numerator, denominator) ELSE @[k]],
        !.orders =
            [i \in 1..Len(@) |->
                IF @[i].company_id = company_id
                THEN split_order(@[i], numerator, denominator) ELSE @[i]]]

\* A split that rescales the prices of the logged transactions as well.
split_rows_rescaling_log(db, company_id, numerator, denominator) ==
    [db EXCEPT
        !.outstanding_shares[company_id] =
            split_shares(@, numerator, denominator),
        !.stock_price[company_id] = split_price(@, numerator, denominator),
        !.portfolios =
            [k \in DOMAIN @ |->
                IF k[2] = company_id
                THEN split_shares(@[k], numerator, denominator) ELSE @[k]],
        !.orders =
            [i \in 1..Len(@) |->
                IF @[i].company_id = company_id
                THEN split_order(@[i], numerator, denominator) ELSE @[i]],
        !.transactions =
            [i \in 1..Len(@) |->
                IF @[i].company_id = company_id
                THEN [@[i] EXCEPT !.price_per_share =
                         split_price(@, numerator, denominator)]
                ELSE @[i]]]

\* The rows crud.execute_stock_split commits for an existing company.
split_rows(db, company_id, numerator, denominator) ==
    [db EXCEPT
        !.outstanding_shares[company_id] =
            split_shares(@, numerator, denominator),
        !.stock_price[company_id] = split_price(@, numerator, denominator),
        !.portfolios =
            [k \in DOMAIN @ |->
                IF k[2] = company_id
                THEN split_shares(@[k], numerator, denominator) ELSE @[k]],
        !.orders =
            [i \in 1..Len(@) |->
                IF @[i].company_id = company_id
                THEN split_order(@[i], numerator, denominator) ELSE @[i]]]

\* The columns a split may write, as they are.
split_columns(db) ==
    [outstanding_shares |-> db.outstanding_shares,
     stock_price |-> db.stock_price,
     portfolios |-> db.portfolios,
     orders |-> db.orders]

\* crud.execute_stock_split: False for an unknown company; otherwise the
\* company, its portfolios and its orders are rescaled and committed once.
\* `before` keeps the columns as they were when it was called.
execute_stock_split(company_id, split_ratio) ==
    LET numerator == split_ratio[1]
        denominator == split_ratio[2]
    IN  /\ call' = [op |-> "execute_stock_split", company_id |-> company_id,
                    split_ratio |-> split_ratio, before |-> split_columns(DB)]
        /\ IF company_id \notin Companies
           THEN /\ ret' = [ok |-> FALSE, error |-> "None", id |-> 0]
                /\ UNCHANGED <<cash, portfolios, stock_price,
                               outstanding_shares, orders, transactions,
                               fills, tx_head>>
           ELSE /\ exact_split(DB, company_id, numerator, denominator)
                /\ Commit(split_rows(DB, company_id, numerator, denominator))
                /\ ret' = NoReturn
        /\ UNCHANGED <<next_id, fill>>
        /\ UNCHANGED corporate

\* -------------------------------------------------------------- dividends
\* remaining_cfo * dividend_payout_percentage of a day on which the company
\* earns something; 80% of any share of it over up to 8 shares is whole.
DailyDividend == 2100

is_quarter_end(date) == date.month \in {3, 6, 9, 12} /\ date.day = 31

\* The Portfolio rows of a company.
shareholders_of(db, company_id) ==
    {k \in DOMAIN db.portfolios : k[2] = company_id}

\* A payout that withholds nothing.
after_tax_dividend_untaxed(shares, total_shares, total_dividends) ==
    (shares * total_dividends) \div total_shares

\* (shares / total_shares) * total_dividends * 0.8
after_tax_dividend(shares, total_shares, total_dividends) ==
    (shares * total_dividends * 4) \div (total_shares * 5)

\* Every after-tax dividend of the payout is a whole amount.
exact_dividends(db, company_id, total_dividends) ==
    LET total_shares == get_total_shares_held(db, company_id)
    IN  \A k \in shareholders_of(db, company_id) :
           (db.portfolios[k] * total_dividends * 4) % (total_shares * 5) = 0

\* shares / total_shares raises ZeroDivisionError for the first Portfolio row
\* when the rows of the company hold no share in all.
dividend_division_by_zero(db, company_id) ==
    /\ shareholders_of(db, company_id) # {}
    /\ get_total_shares_held(db, company_id) = 0

\* Shareholder cash after crud.distribute_quarterly_dividends.
dividend_cash(db, company_id, total_dividends) ==
    LET total_shares == get_total_shares_held(db, company_id)
    IN  [s \in DOMAIN db.cash |->
            IF <<s, company_id>> \in DOMAIN db.portfolios
            THEN db.cash[s]
                 + after_tax_dividend(db.portfolios[<<s, company_id>>],
                                      total_shares, total_dividends)
            ELSE db.cash[s]]

\* crud.update_company_daily, as far as dividends go: the day's dividends are
\* added to the dividend account; on a day is_quarter_end accepts, with a
\* positive account, crud.distribute_quarterly_dividends pays the account out.
update_company_daily(company_id, daily_dividends) ==
    LET current_date == simulation_date
        account == dividend_account[company_id] + daily_dividends
        payout == is_quarter_end(current_date) /\ account > 0
    IN  /\ call' = [op |-> "update_company_daily", company_id |-> company_id,
                    daily_dividends |-> daily_dividends,
                    current_date |-> current_date]
        /\ UNCHANGED <<portfolios, stock_price, outstanding_shares, orders,
                       transactions, fills, tx_head, next_id, fill,
                       simulation_date>>
        /\ IF company_id \notin Companies
           THEN /\ ret' = [ok |-> FALSE, error |-> "None", id |-> 0]
                /\ UNCHANGED <<cash, dividend_account, dividends_paid,
                               last_dividend_payout_date>>
           ELSE /\ dividends_paid[company_id] + account <= MaxDividends
                /\ IF ~payout
                   THEN /\ dividend_account' =
                             [dividend_account EXCEPT ![company_id] = account]
                        /\ ret' = NoReturn
                        /\ UNCHANGED <<cash, dividends_paid,
                                       last_dividend_payout_date>>
                   ELSE IF dividend_division_by_zero(DB, company_id)
                   THEN /\ ret' = [ok |-> FALSE, error |-> "ZeroDivisionError",
                                   id |-> 0]
                        /\ UNCHANGED <<cash, dividend_account, dividends_paid,
                                       last_dividend_payout_date>>
                   ELSE /\ exact_dividends(DB, company_id, account)
                        /\ cash' = dividend_cash(DB, company_id, account)
                        /\ dividends_paid' =
                             [dividends_paid EXCEPT ![company_id] = @ + account]
                        /\ dividend_account' =
                             [dividend_account EXCEPT ![company_id] = 0]
                        /\ last_dividend_payout_date' =
                             [last_dividend_payout_date
                                EXCEPT ![company_id] = current_date]
                        /\ ret' = [ok |-> TRUE, error |-> "paid", id |-> 0]

\* ---------------------------------------------------------------- the date
\* calendar.monthrange, as datetime + timedelta(days=1) uses it.
is_leap(year) == year % 4 = 0 /\ (year % 100 # 0 \/ year % 400 = 0)

days_in_month(year, month) ==
    IF month = 2 THEN (IF is_leap(year) THEN 29 ELSE 28)
    ELSE IF month \in {4, 6, 9, 11} THEN 30 ELSE 31

\* date + timedelta(days=1)
next_day(date) ==
    IF date.day < days_in_month(date.year, date.month)
    THEN [date EXCEPT !.day = @ + 1]
    ELSE IF date.month < 12
    THEN [date EXCEPT !.month = @ + 1, !.day = 1]
    ELSE [year |-> date.year + 1, month |-> 1, day |-> 1]

\* MainWindow.update_data, one tick of the timer while not paused: the
\* simulated date advances by a day and is stored. The widgets it refreshes
\* read and do not write.
update_data ==
    /\ next_day(simulation_date).year <= LastYear
    /\ simulation_date' = next_day(simulation_date)
    /\ call' = [op |-> "update_data"]
    /\ ret' = NoReturn
    /\ UNCHANGED <<cash, portfolios, stock_price, outstanding_shares, orders,
                   transactions, fills, tx_head, next_id, fill,
                   dividend_account, dividends_paid,
                   last_dividend_payout_date>>

\* ------------------------------------------------------------------- Init
\* The shareholders in `people` exist, each company of `founders` has been
\* created by its founder (crud.create_company: the founder holds every
\* share), nobody has traded yet.
InitialCash == [s \in ShareholderIds |-> IF s = "B" THEN 0 ELSE 20]
InitialShares == 2
InitialStockPrice == 10
\* crud.get_simulation_date's default, datetime(2020, 1, 1).
StartDate == [year |-> 2020, month |-> 1, day |-> 1]

\* Shareholders created with the cash of cash0, companies created by their
\* founders.
InitRows(cash0, founders, date) ==
    /\ cash = cash0
    /\ portfolios = [k \in {<<founders[c], c>> : c \in DOMAIN founders}
                        |-> InitialShares]
    /\ stock_price = [c \in DOMAIN founders |-> InitialStockPrice]
    /\ outstanding_shares = [c \in DOMAIN founders |-> InitialShares]
    /\ orders = <<>>
    /\ transactions = <<>>
    /\ fills = <<>>
    /\ tx_head = [c \in DOMAIN founders |-> 0]
    /\ next_id = 1
    /\ call = [op |-> "init"]
    /\ ret = NoReturn
    /\ fill = Idle
    /\ dividend_account = [c \in DOMAIN founders |-> 0]
    /\ dividends_paid = [c \in DOMAIN founders |-> 0]
    /\ last_dividend_payout_date = [c \in DOMAIN founders |-> CreationTime]
    /\ simulation_date = date

InitWith(people, founders) ==
    InitRows([s \in people |-> InitialCash[s]], founders, StartDate)

\* A and B exist, B has founded c1.
Init == InitWith({"A", "B"}, [c \in {"c1"} |-> "B"])

\* A, B and C exist, B has founded c1.
InitThree == InitWith(ShareholderIds, [c \in {"c1"} |-> "B"])

\* A and B exist, B has founded c1 and c2.
InitTwoCompanies == InitWith({"A", "B"}, [c \in {"c1", "c2"} |-> "B"])

NextWith(max_id) ==
    \/ \E order \in OrderCreate : create_order(order, max_id)
    \/ \E order_id \in 1..max_id : cancel_order(order_id)
    \/ \E company_id \in Companies : match_orders(company_id)
    \/ cleanup_invalid_market_orders

Next == NextWith(MaxOrderId)

Spec == Init /\ [][Next]_vars

\* Three shareholders, followed through one more admission.
NextLong == NextWith(LongOrderId)

SpecLong == InitThree /\ [][NextLong]_vars

\* A and B exist, B has founded c1 and c2, and the simulated date has been
\* advanced to the last day of the year.
YearEnd == [year |-> 2020, month |-> 12, day |-> 31]
InitYearEnd ==
    InitRows([s \in {"A", "B"} |-> InitialCash[s]],
             [c \in {"c1", "c2"} |-> "B"], YearEnd)

\* Trading together with the corporate actions.
NextCorporate ==
    \/ \E order \in OrderCreate : create_order(order, CorporateOrderId)
    \/ \E company_id \in Companies : match_orders(company_id)
    \/ \E company_id \in Companies \cup {UnknownCompany}, ratio \in SplitRatios :
          execute_stock_split(company_id, ratio)

SpecCorporate == InitYearEnd /\ [][NextCorporate]_vars

\* A and B exist, B has founded c1, and the simulated date has been advanced
\* to one of the last two days of the year.
InitDividend ==
    \E day \in {30, 31} :
        InitRows([s \in {"A", "B"} |-> InitialCash[s]], [c \in {"c1"} |-> "B"],
                 [YearEnd EXCEPT !.day = day])

\* Trading, splits and the daily update of the companies.
NextDividend ==
    \/ \E order \in OrderCreate : create_order(order, CorporateOrderId)
    \/ \E company_id \in Companies : match_orders(company_id)
    \/ \E company_id \in Companies, ratio \in SplitRatios :
          execute_stock_split(company_id, ratio)
    \/ \E company_id \in Companies \cup {UnknownCompany},
          daily_dividends \in {0, DailyDividend} :
          update_company_daily(company_id, daily_dividends)

SpecDividend == InitDividend /\ [][NextDividend]_vars

\* The date advancing day by day from the start date, and the daily update
\* of the company run on any of the days.
NextCalendar ==
    \/ update_data
    \/ \E company_id \in Companies, daily_dividends \in {0, DailyDividend} :
          update_company_daily(company_id, daily_dividends)

SpecCalendar == Init /\ [][NextCalendar]_vars

\* Every operation that runs against the tables of one company: admission,
\* cancellation, matching, the sweep, splits and the daily update.
NextLedger ==
    \/ \E order \in OrderCreate : create_order(order, CorporateOrderId)
    \/ \E order_id \in 1..CorporateOrderId : cancel_order(order_id)
    \/ \E company_id \in Companies : match_orders(company_id)
    \/ cleanup_invalid_market_orders
    \/ \E company_id \in Companies, ratio \in SplitRatios :
          execute_stock_split(company_id, ratio)
    \/ \E company_id \in Companies, daily_dividends \in {0, DailyDividend} :
          update_company_daily(company_id, daily_dividends)

SpecLedger == InitDividend /\ [][NextLedger]_vars

\* ================================================================= claims
\* shares x price of a Transaction.
TxValue(tx) == tx.shares * tx.price_per_share

\* Cash the transactions txs paid to / took from shareholder s.
Received(s, txs) ==
    SumSeq([i \in 1..Len(txs) |->
               IF txs[i].seller_id = s THEN TxValue(txs[i]) ELSE 0])
Paid(s, txs) ==
    SumSeq([i \in 1..Len(txs) |->
               IF txs[i].buyer_id = s THEN TxValue(txs[i]) ELSE 0])

\* The transactions the step under way appends.
NewTransactions == SubSeq(transactions', Len(transactions) + 1, Len(transactions'))

IsStep(op) == call'.op = op

\* C1: after a matching pass the shares of a company summed over its
\* Portfolio rows equal company.outstanding_shares.
C1_ShareConservation ==
    call.op = "match_orders" =>
        \A c \in Companies : get_total_shares_held(DB, c) = outstanding_shares[c]

\* C2: no shareholder ever has cash < 0 and no Portfolio row ever has
\* shares < 0.
C2_NoNegativeBalances ==
    /\ \A s \in Shareholders : cash[s] >= 0
    /\ \A k \in DOMAIN portfolios : portfolios[k] >= 0

\* C3: a matching pass moves cash only by its fills: every shareholder's cash
\* changes by exactly shares x price of the new transactions it sold in,
\* minus shares x price of those it bought in, so the sum of all cash is the
\* same before and after the pass.
C3_CashConservedByMatching ==
    [][IsStep("match_orders") =>
          /\ \A s \in Shareholders :
                cash'[s] = cash[s] + Received(s, NewTransactions)
                                   - Paid(s, NewTransactions)
          /\ SumSet(cash', Shareholders) = SumSet(cash, Shareholders)]_vars

\* A matching pass has just settled two fills.
C3_Witness ==
    /\ call.op = "match_orders"
    /\ Len(transactions) >= call.transactions_before + 2
    /\ cash # InitialCash

\* Shares of company c the transactions txs delivered to / took from s.
Bought(s, c, txs) ==
    SumSeq([i \in 1..Len(txs) |->
               IF txs[i].buyer_id = s /\ txs[i].company_id = c
               THEN txs[i].shares ELSE 0])
Sold(s, c, txs) ==
    SumSeq([i \in 1..Len(txs) |->
               IF txs[i].seller_id = s /\ txs[i].company_id = c
               THEN txs[i].shares ELSE 0])

\* C4: settlement is atomic: in every state another session can read, each
\* logged Transaction has been applied in full, so every shareholder's cash
\* is its initial cash plus its sales minus its purchases in the log, and
\* likewise its shares (a seller who holds the shares it sells).
C4_SettlementAtomic ==
    \A s \in Shareholders :
        /\ cash[s] = InitialCash[s] + Received(s, transactions)
                                    - Paid(s, transactions)
        /\ \A c \in Companies :
              Sold(s, c, transactions)
                  <= (IF s = "B" THEN InitialShares ELSE 0)
                       + Bought(s, c, transactions)
              => get_portfolio_shares(DB, s, c)
                   = (IF s = "B" THEN InitialShares ELSE 0)
                       + Bought(s, c, transactions) - Sold(s, c, transactions)

\* The (shareholder, company, side) request of the create_order step under
\* way, for requests naming rows that exist.
AdmissionOf(order_type) ==
    /\ IsStep("create_order")
    /\ call'.order.order_type = order_type
    /\ call'.order.shareholder_id \in Shareholders
    /\ call'.order.company_id \in Companies

\* C5: a SELL request is rejected with "Insufficient shares" exactly when its
\* shares exceed held shares minus the shares of the shareholder's open SELL
\* orders for the company.
C5_SellAdmission ==
    [][AdmissionOf(SELL) =>
          LET order == call'.order
              sellable ==
                  get_portfolio_shares(DB, order.shareholder_id, order.company_id)
                    - get_pending_sell_orders(DB, order.shareholder_id,
                                              order.company_id)
          IN  /\ order.shares > sellable
                    => ~ret'.ok /\ ret'.error = "Insufficient shares"
              /\ order.shares <= sellable => ret'.ok]_vars

\* available = outstanding_shares - held - open BUY orders, for a request.
AvailableShares(db, order) ==
    db.outstanding_shares[order.company_id]
      - get_portfolio_shares(db, order.shareholder_id, order.company_id)
      - order_shares_sum(db, order.shareholder_id, order.company_id, BUY)

Unaffordable(db, order) ==
    /\ order.order_subtype = LIMIT
    /\ db.cash[order.shareholder_id] < order.shares * order.price

Committed(s) ==
    LET rows == Filter(orders, LAMBDA o : /\ o.shareholder_id = s
                                          /\ o.order_type = BUY
                                          /\ o.order_subtype = LIMIT)
    IN  SumSeq([i \in 1..Len(rows) |-> rows[i].shares * rows[i].price])

\* C7: after admissions alone, shares x price summed over a shareholder's
\* open LIMIT BUY orders never exceeds the shareholder's cash.
C7_CommittedWithinCash ==
    \A s \in Shareholders : Committed(s) <= cash[s]

\* C8: a rejected admission changes no order, cash balance, Portfolio row,
\* outstanding_shares, stock price or transaction.
C8_RejectionChangesNothing ==
    [][IsStep("create_order") /\ ~ret'.ok =>
          UNCHANGED <<orders, cash, portfolios, outstanding_shares, stock_price,
                      transactions, tx_head, next_id>>]_vars

\* An admission was rejected for lack of available shares with orders in
\* the book and trades in the log.
C8_Witness ==
    /\ call.op = "create_order"
    /\ ~ret.ok
    /\ ret.error = "Not enough available shares"
    /\ orders # <<>>
    /\ transactions # <<>>

C10_LimitPriceBound ==
    \A i \in 1..Len(transactions) :
        LET price == transactions[i].price_per_share IN
        /\ fills[i].phase = "limit" =>
              /\ price = fills[i].sell_price
              /\ fills[i].sell_price <= price
              /\ price <= fills[i].buy_price
        /\ fills[i].buy_price # None => price <= fills[i].buy_price
        /\ fills[i].sell_price # None => price >= fills[i].sell_price

\* A limit BUY crossed a cheaper limit SELL.
C10_Witness ==
    \E i \in 1..Len(transactions) :
        /\ fills[i].phase = "limit"
        /\ fills[i].buy_price > fills[i].sell_price

\* C11: every fill of a MARKET order executes at a price within
\* [0.9 x ref, 1.1 x ref], ref being the last price execute_market_order read
\* when it started (the company's last transaction price, or the stock price
\* if it has no transaction).
C11_MarketFillInBand ==
    fill.phase = "settling" =>
        /\ 10 * fill.tx.price_per_share >= 9 * fill.last_price
        /\ 10 * fill.tx.price_per_share <= 11 * fill.last_price

\* A buyer whose cash is not a multiple of the price: A has 15, B has founded
\* c1 (the scenario of test_market_buy_order_partial_fill at small numbers).
ScarceCash == [s \in {"A", "B"} |-> IF s = "A" THEN 15 ELSE 0]
InitScarce == InitRows(ScarceCash, [c \in {"c1"} |-> "B"], StartDate)

\* The market BUY order whose execution is under way.
MarketBuyRun ==
    /\ fill.phase # "idle"
    /\ get_order(DB, fill.order_id).order_type = BUY

\* min(q, r, floor(c / p)) of claim C12 for the loop turn about to run.
ClaimedFill ==
    LET order == get_order(DB, fill.order_id)
        candidate == get_order(DB, fill.opposing[fill.i])
    IN  Min(order.shares - fill.executed,
            Min(candidate.shares,
                cash[order.shareholder_id] \div candidate.price))

TransactionsOf(txs, company_id) ==
    {i \in 1..Len(txs) : txs[i].company_id = company_id}

\* The greatest element of a non-empty set of numbers.
Max(S) == CHOOSE x \in S : \A y \in S : y <= x

\* C13: after the price refresh that ends a matching pass, the stock price is
\* the price of the lowest-priced open LIMIT SELL order of the company if
\* there is one, else the price of the company's most recently created
\* Transaction if there is one, else what it was before the pass.
C13_PriceRefresh ==
    [][IsStep("match_orders") =>
          LET c == call'.company_id
              sells == limit_orders(DB', c, SELL)
              own == TransactionsOf(transactions', c)
          IN  stock_price'[c] =
                  IF sells # <<>>
                  THEN order_by_price(sells, 1)[1].price
                  ELSE IF own # {}
                  THEN transactions'[Max(own)].price_per_share
                  ELSE stock_price[c]]_vars

\* C14: cancel_order on the id of an open order removes exactly that order
\* and returns success; on any other id, and on the same id a second time,
\* it returns failure and removes nothing; cash, portfolios, the other
\* orders and the transactions are never changed by it.
C14_CancelOrder ==
    [][IsStep("cancel_order") =>
          LET order_id == call'.order_id IN
          /\ ret'.ok <=> has_order(DB, order_id)
          /\ orders' = SelectSeq(orders, LAMBDA o : o.id # order_id)
          /\ Len(orders') = Len(orders) - (IF ret'.ok THEN 1 ELSE 0)
          /\ ~has_order(DB', order_id)
          /\ UNCHANGED <<cash, portfolios, outstanding_shares, stock_price,
                         transactions, next_id>>
          /\ call.op = "cancel_order" /\ call.order_id = order_id =>
                ~ret'.ok /\ orders' = orders]_vars

\* A cancellation of an id that had been handed out failed, with other
\* orders open and no trade so far.
C14_Witness ==
    /\ call.op = "cancel_order"
    /\ ~ret.ok
    /\ call.order_id < next_id
    /\ Len(orders) = 2
    /\ transactions = <<>>

\* A stock split of an existing company is the step under way.
SplitStep ==
    /\ IsStep("execute_stock_split")
    /\ call'.company_id \in Companies

\* C15: execute_stock_split with ratio n:d sets outstanding_shares to
\* floor(outstanding_shares x n / d), multiplies the stock price by d/n, sets
\* every Portfolio entry of the company to floor(shares x n / d) and rescales
\* every open order of the company (shares floored, limit price by d/n), all
\* in the one step; the other companies' prices, shares, portfolios and
\* orders, all cash balances and the transactions are unchanged.
C15_StockSplit ==
    [][SplitStep =>
          LET c == call'.company_id
              n == call'.split_ratio[1]
              d == call'.split_ratio[2]
          IN  /\ ret'.ok
              /\ outstanding_shares' =
                    [outstanding_shares EXCEPT ![c] = (@ * n) \div d]
              /\ stock_price'[c] * n = stock_price[c] * d
              /\ \A x \in Companies \ {c} : stock_price'[x] = stock_price[x]
              /\ DOMAIN portfolios' = DOMAIN portfolios
              /\ \A k \in DOMAIN portfolios :
                    portfolios'[k] = IF k[2] = c
                                     THEN (portfolios[k] * n) \div d
                                     ELSE portfolios[k]
              /\ Len(orders') = Len(orders)
              /\ \A i \in 1..Len(orders) :
                    IF orders[i].company_id # c THEN orders'[i] = orders[i]
                    ELSE /\ orders'[i].shares = (orders[i].shares * n) \div d
                         /\ IF orders[i].price = None
                            THEN orders'[i].price = None
                            ELSE orders'[i].price * n = orders[i].price * d
                         /\ orders'[i].id = orders[i].id
                         /\ orders'[i].shareholder_id = orders[i].shareholder_id
                         /\ orders'[i].company_id = c
                         /\ orders'[i].order_type = orders[i].order_type
                         /\ orders'[i].order_subtype = orders[i].order_subtype
              /\ UNCHANGED <<cash, transactions>>]_vars

\* A reverse split 1:2 moved the portfolios of a company with two holders,
\* one of them with an odd number of shares, and an open order of 1 share,
\* while the other company had an open order too.
C15_Witness ==
    /\ call.op = "execute_stock_split"
    /\ call.company_id \in Companies
    /\ call.split_ratio = <<1, 2>>
    /\ Len(orders) = 2
    /\ orders[1].company_id # orders[2].company_id
    /\ \E i \in 1..2 : /\ orders[i].company_id = call.company_id
                        /\ call.before.orders[i].shares = 1
                        /\ orders[i].shares = 0
                        /\ orders[i].price = 2 * call.before.orders[i].price
    /\ \E k \in DOMAIN portfolios : /\ k[2] = call.company_id
                                     /\ call.before.portfolios[k] = 2
                                     /\ portfolios[k] = 1

\* C16: a split 2:1 followed by a split 1:2 of the same company restores the
\* outstanding shares, the shares of every Portfolio entry, the shares and
\* limit price of every open order and the stock price.
C16_SplitNeutrality ==
    [][/\ SplitStep
       /\ call'.split_ratio = <<1, 2>>
       /\ call.op = "execute_stock_split"
       /\ call.split_ratio = <<2, 1>>
       /\ call.company_id = call'.company_id
       => /\ outstanding_shares' = call.before.outstanding_shares
          /\ portfolios' = call.before.portfolios
          /\ orders' = call.before.orders
          /\ stock_price' = call.before.stock_price]_vars

\* A split 1:2 has just undone a split 2:1 (the price before it was half
\* the price now) of a company with two holders and an open LIMIT order.
C16_Witness ==
    /\ call.op = "execute_stock_split"
    /\ call.company_id \in Companies
    /\ call.split_ratio = <<1, 2>>
    /\ call.before.stock_price[call.company_id] * 2
          = stock_price[call.company_id]
    /\ call.before.outstanding_shares[call.company_id]
          = 2 * outstanding_shares[call.company_id]
    /\ outstanding_shares[call.company_id] = InitialShares
    /\ \E s \in Shareholders :
          /\ <<s, call.company_id>> \in DOMAIN portfolios
          /\ portfolios[<<s, call.company_id>>] = 1
          /\ call.before.portfolios[<<s, call.company_id>>] = 2
    /\ \E i \in 1..Len(orders) : /\ orders[i].company_id = call.company_id
                                  /\ orders[i].order_subtype = LIMIT
                                  /\ orders[i].shares = 1

\* C17: after every stock split the shares of the company's Portfolio
\* entries sum to its outstanding_shares (given that they did before it).
C17_SplitConservesShares ==
    [][/\ SplitStep
       /\ get_total_shares_held(DB, call'.company_id)
            = outstanding_shares[call'.company_id]
       => get_total_shares_held(DB', call'.company_id)
            = outstanding_shares'[call'.company_id]]_vars

\* A run of crud.update_company_daily that paid the dividend account out.
PayoutStep == IsStep("update_company_daily") /\ ret'.error = "paid"

\* The account crud.distribute_quarterly_dividends finds: the day's dividends
\* have been added to it.
PayoutAccount == dividend_account[call'.company_id] + call'.daily_dividends

\* Cash credited to the shareholders by the step, in all.
CashCredited == SumSet([s \in Shareholders |-> cash'[s] - cash[s]], Shareholders)

\* What a distribution does apart from the amounts it credits.
PayoutBookkeeping ==
    LET c == call'.company_id
    IN  /\ PayoutAccount > 0
        /\ dividends_paid' =
              [dividends_paid EXCEPT ![c] = @ + PayoutAccount]
        /\ dividend_account' = [dividend_account EXCEPT ![c] = 0]
        /\ last_dividend_payout_date' =
              [last_dividend_payout_date EXCEPT ![c] = simulation_date]
        /\ UNCHANGED <<portfolios, orders, outstanding_shares, stock_price,
                       transactions, simulation_date>>
        /\ CashCredited * 5 = PayoutAccount * 4

LastDayOfQuarter(date) ==
    /\ date.month \in {3, 6, 9, 12}
    /\ date.day = days_in_month(date.year, date.month)

\* C19: as the date advances day by day, a daily update that finds a positive
\* dividend account distributes it on the last calendar day of March, June,
\* September and December, and on no other day.
C19_QuarterEndTrigger ==
    [][/\ IsStep("update_company_daily")
       /\ call'.company_id \in Companies
       /\ PayoutAccount > 0
       => (ret'.error = "paid" <=> LastDayOfQuarter(simulation_date))]_vars

\* C20: admission and a matching pass of one company exclude each other: no
\* admission puts an order on the company's book between the commits of a
\* market order's execution on that book.
C20_ExclusiveSection ==
    [][fill # Idle =>
         ~(/\ IsStep("create_order")
           /\ ret'.ok
           /\ call'.order.company_id
                = get_order(DB, fill.order_id).company_id)]_vars

\* C21: the transaction log is append-only: no operation deletes a
\* Transaction or changes its buyer, seller, company, shares or price, and
\* every fill appends exactly one Transaction of its own.
C21_AppendOnlyLog ==
    [][/\ Len(transactions') >= Len(transactions)
       /\ SubSeq(transactions', 1, Len(transactions)) = transactions
       /\ Len(fills') = Len(transactions')
       /\ ~IsStep("match_orders") => transactions' = transactions]_vars

\* A split and a payout have both run over a company with a logged
\* transaction, whose price is no longer the company's stock price.
C21_Witness ==
    /\ call.op = "execute_stock_split"
    /\ Len(transactions) >= 1
    /\ dividends_paid[call.company_id] > 0
    /\ transactions[1].company_id = call.company_id
    /\ transactions[1].price_per_share # stock_price[call.company_id]
    /\ call.before.stock_price[call.company_id] # stock_price[call.company_id]

\* C22: every open order has remaining shares > 0.
C22_OpenOrdersPositive ==
    \A i \in 1..Len(orders) : orders[i].shares > 0

\* C24: every Portfolio entry has a share count > 0 (the entries are keyed by
\* the (shareholder, company) pair, one entry a pair): an entry whose count
\* reaches zero through a sale or a reverse split is removed.
C24_PortfolioEntriesPositive ==
    \A k \in DOMAIN portfolios : portfolios[k] > 0

\* The orders of a company in the book.
BookOf(company_id) ==
    {i \in 1..Len(orders) : orders[i].company_id = company_id}

\* The book of the company holds one LIMIT BUY and one LIMIT SELL that cross,
\* and nothing else: a matching pass is one limit crossing.
OneCrossingPair(company_id, b, s) ==
    /\ BookOf(company_id) = {b, s}
    /\ orders[b].order_type = BUY /\ orders[b].order_subtype = LIMIT
    /\ orders[s].order_type = SELL /\ orders[s].order_subtype = LIMIT
    /\ orders[b].price >= orders[s].price

\* min(buy.remaining, sell.remaining), capped by the shares the buyer may
\* still hold and by the shares the buyer can pay at the SELL price.
CappedQuantity(b, s) ==
    LET buyer == orders[b].shareholder_id
        c == orders[b].company_id
    IN  Min(Min(orders[b].shares, orders[s].shares),
            Min(outstanding_shares[c] - get_portfolio_shares(DB, buyer, c),
                cash[buyer] \div orders[s].price))

\* C28: a limit crossing trades min(buy.remaining, sell.remaining) capped so
\* that the buyer's holding stays within outstanding_shares and the buyer's
\* cash does not go negative; a quantity capped to zero means no trade, no
\* Transaction and no change to either order, any cash or any Portfolio.
C28_LimitCrossingQuantity ==
    [][\A b, s \in 1..Len(orders) :
         /\ IsStep("match_orders")
         /\ OneCrossingPair(call'.company_id, b, s)
         => LET q == CappedQuantity(b, s)
                buyer == orders[b].shareholder_id
                seller == orders[s].shareholder_id
                c == orders[b].company_id
            IN  IF q <= 0
                THEN UNCHANGED <<orders, cash, portfolios, transactions,
                                 outstanding_shares>>
                ELSE /\ transactions' =
                          Append(transactions,
                                 [buyer_id |-> buyer, seller_id |-> seller,
                                  company_id |-> c, shares |-> q,
                                  price_per_share |-> orders[s].price])
                     /\ get_portfolio_shares(DB', buyer, c)
                          <= outstanding_shares'[c]
                     /\ cash'[buyer] >= 0
                     /\ order_shares(DB', orders[b].id) = orders[b].shares - q
                     /\ order_shares(DB', orders[s].id) = orders[s].shares - q
                     /\ buyer # seller =>
                          /\ cash'[buyer] = cash[buyer] - q * orders[s].price
                          /\ cash'[seller] = cash[seller] + q * orders[s].price
                          /\ get_portfolio_shares(DB', buyer, c)
                               = get_portfolio_shares(DB, buyer, c) + q]_vars

\* A matching pass has run over a book that holds a crossing LIMIT BUY and
\* LIMIT SELL and has traded nothing: the buyer could pay for no share.
C28_Witness ==
    /\ call.op = "match_orders"
    /\ call.transactions_before = Len(transactions)
    /\ \E b, s \in 1..Len(orders) :
          /\ OneCrossingPair(call.company_id, b, s)
          /\ cash[orders[b].shareholder_id] < orders[s].price
          /\ cash[orders[b].shareholder_id] > 0

\* Trading with a buyer whose cash is not a multiple of the price.
SpecScarce == InitScarce /\ [][NextLong]_vars

\* The MARKET orders of a company whose opposing side holds no LIMIT order
\* priced inside the valid band.
OrphanMarketOrders(db, company_id) ==
    {i \in 1..Len(db.orders) :
        /\ db.orders[i].company_id = company_id
        /\ db.orders[i].order_subtype = MARKET
        /\ valid_orders(db, db.orders[i]) = <<>>}

\* C30: when a matching pass for a company has completed, the book holds no
\* MARKET order of that company whose opposing side has no LIMIT order inside
\* the valid band; the pass has removed such orders without executing them.
C30_NoOrphanAfterPass ==
    call.op = "match_orders" => OrphanMarketOrders(DB, call.company_id) = {}

\* LIMIT BUY and MARKET SELL requests.
MarketSellRequests ==
    {o \in OrderCreate :
        \/ o.order_type = BUY /\ o.order_subtype = LIMIT
        \/ o.order_type = SELL /\ o.order_subtype = MARKET /\ o.price = None}

\* Three shareholders; market SELL orders executed commit by commit against
\* resting LIMIT BUY orders.
NextMarketSell ==
    \/ \E order \in MarketSellRequests : create_order(order, LongOrderId)
    \/ \E order_id \in 1..LongOrderId : begin_market_order(order_id)
    \/ market_fill_first_commit
    \/ market_fill_next_commit
    \/ end_market_order

SpecMarketSell == InitThree /\ [][NextMarketSell]_vars

\* C29: a MARKET SELL is matched against the LIMIT BUY orders in descending
\* price order, and no fill transfers to a buyer more shares than the
\* seller's Portfolio contains at the time of the fill.
C29_MarketSellWithinHolding ==
    /\ fill.phase = "loop" /\ fill.i = 1 /\ fill.executed = 0
       /\ get_order(DB, fill.order_id).order_type = SELL
       => \A i, j \in 1..Len(fill.opposing) :
             i < j => get_order(DB, fill.opposing[i]).price
                        >= get_order(DB, fill.opposing[j]).price
    /\ fill.phase = "settling" /\ fill.k = 2
       /\ get_order(DB, fill.order_id).order_type = SELL
       /\ fill.tx.buyer_id # fill.tx.seller_id
       => get_portfolio_shares(DB, fill.tx.seller_id, fill.tx.company_id)
            >= fill.tx.shares

\* Requests for a LIMIT order that carry no price.
UnpricedLimitOrders ==
    [shareholder_id : Shareholders, company_id : Companies,
     order_type : {BUY, SELL}, order_subtype : {LIMIT},
     shares : {1}, price : {None}]

\* Admissions alone, among them requests for LIMIT orders without a price.
NextUnpriced ==
    \E order \in OrderCreate \cup UnpricedLimitOrders :
        create_order(order, MaxOrderId)

SpecUnpriced == Init /\ [][NextUnpriced]_vars

\* C23: an open order has a limit price exactly when it is a LIMIT order; a
\* request for a LIMIT order (BUY or SELL) without a price is rejected and
\* changes nothing; a price sent with a MARKET order is not stored.
C23_PriceIffLimit ==
    [][/\ \A i \in 1..Len(orders') :
             orders'[i].price # None <=> orders'[i].order_subtype = LIMIT
       /\ IsStep("create_order") /\ call'.order \in UnpricedLimitOrders
             => /\ ~ret'.ok
                /\ UNCHANGED <<orders, cash, portfolios, outstanding_shares,
                               stock_price, transactions>>]_vars

\* A and B exist and no company does; companies are founded and traded.
InitFounding == InitWith({"A", "B"}, [c \in {} |-> "B"])

NextFounding ==
    \/ \E founder_id \in {"A", "B", UnknownShareholder}, n \in 1..InitialShares :
          create_company(InitialStockPrice, n, founder_id)
    \/ \E founder_id \in {"A", "B", UnknownShareholder}, n \in 1..InitialShares :
          post_companies(InitialStockPrice, n, founder_id)
    \/ \E order \in OrderCreate : create_order(order, CorporateOrderId)
    \/ \E company_id \in Companies : match_orders(company_id)

SpecFounding == InitFounding /\ [][NextFounding]_vars

\* A company is being created, by either create_company.
CreationStep == IsStep("create_company") \/ IsStep("post_companies")

NextImmediate ==
    \/ \E order \in OrderCreate \cup UnpricedLimitOrders :
          post_orders(order, MaxOrderId)
    \/ \E order_id \in 1..MaxOrderId : cancel_order(order_id)

SpecImmediate == Init /\ [][NextImmediate]_vars

\* The fill main.execute_market_order would make first for the request.
FirstFillCost(db, order) ==
    LET first == matching_orders(db, order)[1] IN
    Min(first.shares, order.shares) * price_or_stock_price(db, first)

\* The request is a MARKET BUY that passes the checks on ids and on the
\* company's outstanding shares, finds a matching order, and asks for a
\* first fill the buyer cannot pay in full.
UnaffordableMarketBuy(db, order) ==
    /\ order.order_type = BUY
    /\ order.order_subtype = MARKET
    /\ post_orders_check_without_funds(db, order) = "ok"
    /\ matching_orders(db, order) # <<>>
    /\ db.cash[order.shareholder_id] < FirstFillCost(db, order)

AffordableAgainstSingleSell(db, order) ==
    LET book == Filter(db.orders,
                       LAMBDA o : o.company_id = order.company_id) IN
    /\ order.order_type = BUY
    /\ order.order_subtype = MARKET
    /\ post_orders_check(db, order) = "ok"
    /\ Len(book) = 1
    /\ book[1].order_type = SELL
    /\ book[1].order_subtype = LIMIT
    /\ book[1].shareholder_id # order.shareholder_id
    /\ book[1].shares > order.shares
    /\ get_portfolio_shares(db, book[1].shareholder_id, order.company_id)
         >= book[1].shares
    /\ db.cash[order.shareholder_id] >= order.shares * book[1].price

\* C26: a fully affordable MARKET BUY of n shares sent to the orders
\* endpoint against a single resting LIMIT SELL of m > n shares at price p,
\* whose seller holds at least m shares, executes all n shares at p: the
\* buyer's holding rises by n and cash falls by n x p, the seller's holding
\* falls by n and cash rises by n x p, and the book still holds exactly that
\* sell order with m - n shares at p.
C26_PartialFillOfSingleSell ==
    [][IsStep("post_orders") /\ AffordableAgainstSingleSell(DB, call'.order) =>
        LET order == call'.order
            c == order.company_id
            sell == Filter(orders, LAMBDA o : o.company_id = c)[1]
            buyer == order.shareholder_id
            seller == sell.shareholder_id
            n == order.shares
        IN  /\ ret'.ok
            /\ get_portfolio_shares(DB', buyer, c)
                 = get_portfolio_shares(DB, buyer, c) + n
            /\ cash'[buyer] = cash[buyer] - n * sell.price
            /\ get_portfolio_shares(DB', seller, c)
                 = get_portfolio_shares(DB, seller, c) - n
            /\ cash'[seller] = cash[seller] + n * sell.price
            /\ Filter(orders', LAMBDA o : o.company_id = c)
                 = <<[sell EXCEPT !.shares = @ - n]>>]_vars

\* Position of a phase within a matching pass.
PhaseRank(phase) ==
    CASE phase = "market_buy" -> 1
      [] phase = "market_sell" -> 2
      [] phase = "limit" -> 3

\* C31: within one matching pass every MARKET BUY order is processed before
\* any MARKET SELL order and every MARKET order before any LIMIT crossing:
\* the fills of a pass appear in the log in that order of phases.
C31_PhaseOrder ==
    [][IsStep("match_orders") =>
        \A i, j \in (Len(fills) + 1)..Len(fills') :
            i < j => PhaseRank(fills'[i].phase) <= PhaseRank(fills'[j].phase)]_vars

C31_Witness ==
    /\ call.op = "match_orders"
    /\ Len(fills) = call.transactions_before + 2
    /\ fills[Len(fills) - 1].phase = "market_buy"
    /\ fills[Len(fills)].phase = "limit"
    /\ fills[Len(fills) - 1].sell_order = fills[Len(fills)].sell_order

\* The rows of d other than the ids of its transactions.
LedgerOf(d) ==
    [cash |-> d.cash, portfolios |-> d.portfolios,
     stock_price |-> d.stock_price,
     outstanding_shares |-> d.outstanding_shares,
     orders |-> d.orders, transactions |-> d.transactions, fills |-> d.fills]

\* C32: a matching pass is deterministic: run from the same book, ledger and
\* transaction log it produces the same fills in the same order and the same
\* final state, whatever ids its transactions receive.
C32_DeterministicPass ==
    \A company_id \in Companies :
        \A d1, d2 \in match_orders_result(DB, company_id) :
            LedgerOf(d1) = LedgerOf(d2)

\* The request is a priced BUY LIMIT of an existing shareholder for an
\* existing company that asks for more shares than are available to the
\* shareholder and whose cost, with the shareholder's open LIMIT BUY orders,
\* exceeds the shareholder's cash.
ExceedsSharesAndFunds(db, order) ==
    /\ order.shareholder_id \in DOMAIN db.cash
    /\ order.company_id \in DOMAIN db.stock_price
    /\ order.order_type = BUY
    /\ order.order_subtype = LIMIT
    /\ order.price # None
    /\ order.shares >
          db.outstanding_shares[order.company_id]
            - get_portfolio_shares(db, order.shareholder_id, order.company_id)
            - order_shares_sum(db, order.shareholder_id, order.company_id, BUY)
    /\ total_buy_orders_cost(db, order.shareholder_id, order.company_id)
          + order.shares * order.price > db.cash[order.shareholder_id]

\* C33: admission checks fail fast in the order existence, available shares
\* (BUY), committed funds (BUY LIMIT): a BUY LIMIT request that violates both
\* the available-shares check and the funds check is rejected with the "not
\* enough available shares" reason.
C33_SharesCheckedBeforeFunds ==
    [][IsStep("create_order") /\ ExceedsSharesAndFunds(DB, call'.order) =>
        /\ ~ret'.ok
        /\ ret'.error = "Not enough available shares"]_vars

\* The company has no Portfolio row.
NoPortfolios(db, company_id) ==
    \A k \in DOMAIN db.portfolios : k[2] # company_id

\* Number of order ids in the runs that empty a company of its holders.
ThinOrderId == 4

\* The founder offers the whole holding at market; A bids for single shares.
ThinRequests ==
    {o \in OrderCreate :
        \/ /\ o.shareholder_id = "B" /\ o.order_type = SELL
              /\ o.order_subtype = MARKET /\ o.shares = 2 /\ o.price = None
        \/ /\ o.shareholder_id = "A" /\ o.order_type = BUY
              /\ o.order_subtype = LIMIT /\ o.shares = 1 /\ o.price = 10}

\* Those requests with matching, reverse splits and the daily update.
NextThin ==
    \/ \E order \in ThinRequests : create_order(order, ThinOrderId)
    \/ \E company_id \in Companies : match_orders(company_id)
    \/ \E company_id \in Companies : execute_stock_split(company_id, <<1, 2>>)
    \/ \E company_id \in Companies :
          update_company_daily(company_id, DailyDividend)

SpecThin == InitDividend /\ [][NextThin]_vars

\* C34: a stock split or a dividend distribution applied to a company that
\* has no Portfolio row is a no-op: it reports no error and leaves
\* outstanding_shares, stock_price, dividends_paid, the dividend account (as
\* accrued that day), every order and every cash balance unchanged.
C34_NoHoldersNoOp ==
    [][/\ IsStep("execute_stock_split") \/ IsStep("update_company_daily")
       /\ call'.company_id \in Companies
       /\ NoPortfolios(DB, call'.company_id)
       => /\ ret'.ok
          /\ UNCHANGED <<outstanding_shares, stock_price, dividends_paid,
                         orders, cash>>
          /\ dividend_account' =
                IF IsStep("update_company_daily")
                THEN [dividend_account EXCEPT ![call'.company_id] =
                         @ + call'.daily_dividends]
                ELSE dividend_account]_vars

\* ------------------------------------------------- a pass that raises
\* Requests of a market where a share is offered for nothing: the LIMIT and
\* MARKET BUY requests and LIMIT SELL requests of OrderCreate, and LIMIT SELL
\* requests priced 0 (schemas.OrderCreate takes any float as price and
\* crud.create_order checks only the seller's holding).
ZeroPricedRequests ==
    {o \in OrderCreate : /\ o.shareholder_id \in {"A", "B"}
                         /\ ~(o.order_subtype = MARKET /\ o.order_type = SELL)
                         /\ o.order_subtype = MARKET => o.price = None}
    \cup
    [shareholder_id : {"A", "B"}, company_id : Companies,
     order_type : {SELL}, order_subtype : {LIMIT},
     shares : 1..MaxShares, price : {0}]

NextZeroPriced ==
    \/ \E order \in ZeroPricedRequests : create_order(order, MaxOrderId)
    \/ \E company_id \in Companies : match_orders(company_id)

SpecZeroPriced == Init /\ [][NextZeroPriced]_vars

\* A LIMIT BUY and a LIMIT SELL of the company that cross, with shares left on
\* both, whose buyer can pay for and may hold at least one share.
CrossableLimits(db, company_id) ==
    \E i, j \in DOMAIN db.orders :
        LET b == db.orders[i]
            s == db.orders[j]
        IN  /\ b.company_id = company_id /\ s.company_id = company_id
            /\ b.order_type = BUY /\ b.order_subtype = LIMIT
            /\ s.order_type = SELL /\ s.order_subtype = LIMIT
            /\ b.shares > 0 /\ s.shares > 0
            /\ b.price >= s.price
            /\ db.cash[b.shareholder_id] >= s.price
            /\ db.outstanding_shares[company_id]
                 - get_portfolio_shares(db, b.shareholder_id, company_id) >= 1

\* C35: an exception raised by one market order inside a matching pass does
\* not end the pass: the limit crossing of the same pass is still processed,
\* so a pass over a book with a LIMIT BUY and a LIMIT SELL that cross, whose
\* buyer can pay for and hold a share, records at least one trade.
C35_PassSurvivesFailingOrder ==
    [][IsStep("match_orders") /\ CrossableLimits(DB, call'.company_id)
         => Len(transactions') > Len(transactions)]_vars

\* Remaining shares of the open SELL orders of a shareholder in a company.
OpenSellShares(db, shareholder_id, company_id) ==
    SumSeq([i \in 1..Len(db.orders) |->
              IF /\ db.orders[i].shareholder_id = shareholder_id
                 /\ db.orders[i].company_id = company_id
                 /\ db.orders[i].order_type = SELL
              THEN db.orders[i].shares ELSE 0])

\* C36: for every shareholder and company, the remaining shares of the
\* shareholder's open SELL orders in the company add up to no more than the
\* shares the shareholder holds in it.
C36_SellOrdersWithinHolding ==
    \A s \in Shareholders, c \in Companies :
        OpenSellShares(DB, s, c) <= get_portfolio_shares(DB, s, c)

\* The book of the company holds a LIMIT BUY and a LIMIT SELL, both with
\* shares remaining, with buy.price >= sell.price.
Crossed(db, company_id) ==
    \E i, j \in DOMAIN db.orders :
        /\ db.orders[i].company_id = company_id
        /\ db.orders[j].company_id = company_id
        /\ db.orders[i].order_type = BUY /\ db.orders[i].order_subtype = LIMIT
        /\ db.orders[j].order_type = SELL /\ db.orders[j].order_subtype = LIMIT
        /\ db.orders[i].shares > 0 /\ db.orders[j].shares > 0
        /\ db.orders[i].price >= db.orders[j].price

RECURSIVE limit_loop_caps(_, _, _, _, _, _)
\* The limit crossing loop of match_orders from buy i and sell j on, noting
\* in `capped` whether execute_trade settled fewer shares than
\* min(buy_order.shares, sell_order.shares) for some pair.
limit_loop_caps(db, buys, sells, i, j, capped) ==
    IF i > Len(buys) THEN {[db |-> db, capped |-> capped]}
    ELSE IF j > Len(sells) THEN limit_loop_caps(db, buys, sells, i + 1, 1, capped)
    ELSE IF buys[i].price >= sells[j].price
    THEN LET cut == trade_shares_of(db, buys[i], sells[j])
                      < trade_shares_of_uncapped(db, buys[i], sells[j])
         IN  UNION { IF order_shares(d, buys[i].id) = 0
                     THEN limit_loop_caps(
                              [d EXCEPT !.orders = Filter(@, LAMBDA o : o.id # buys[i].id)],
                              buys, sells, i + 1, 1, capped \/ cut)
                     ELSE limit_loop_caps(d, buys, sells, i, j + 1, capped \/ cut)
                     : d \in execute_trade(db, buys[i], sells[j]) }
    ELSE limit_loop_caps(db, buys, sells, i + 1, 1, capped)

\* The outcomes of the limit crossing of a pass over db, each with its note.
limit_crossing_caps(db, company_id) ==
    LET after_buys ==
            market_phase({db}, order_ids(market_orders(db, company_id, BUY)))
        after_sells ==
            UNION { market_phase({d}, order_ids(market_orders(d, company_id, SELL)))
                    : d \in after_buys }
    IN  UNION { limit_loop_caps(
                    d, order_by_price(limit_orders(d, company_id, BUY), -1),
                    order_by_price(limit_orders(d, company_id, SELL), 1),
                    1, 1, FALSE)
                : d \in after_sells }

\* C37: after a matching pass in which no affordability or holding cap
\* reduced a trade of the limit crossing, the book is uncrossed: no LIMIT BUY
\* and LIMIT SELL of the company both have shares remaining with
\* buy.price >= sell.price. (The noted outcomes are those of the pass.)
C37_UncrossedAfterUncappedPass ==
    \A c \in Companies :
        /\ { update_stock_price(r.db, c) : r \in limit_crossing_caps(DB, c) }
             = match_orders_result(DB, c)
        /\ \A r \in limit_crossing_caps(DB, c) : ~r.capped => ~Crossed(r.db, c)

\* A crossed book whose pass trades in the limit crossing without a cap and
\* leaves part of an order resting.
C37_Witness ==
    /\ Crossed(DB, "c1")
    /\ \A i \in DOMAIN orders : orders[i].order_subtype = LIMIT
    /\ \E r \in limit_crossing_caps(DB, "c1") :
          /\ ~r.capped
          /\ Len(r.db.transactions) > Len(transactions)
          /\ r.db.orders # <<>>

\* The MARKET orders cleanup_invalid_market_orders deletes from db.
SweptOrders(db) ==
    {i \in DOMAIN db.orders :
        /\ db.orders[i].order_subtype = MARKET
        /\ \A j \in DOMAIN cleanup_result(db).orders :
               cleanup_result(db).orders[j].id # db.orders[i].id}

\* C38: the orphan sweep and the market-order execution agree on
\* eligibility: cleanup_invalid_market_orders deletes a MARKET order only if
\* execute_market_order on the same state would find no eligible opposing
\* LIMIT order.
C38_SweepAgreesWithExecution ==
    \A i \in SweptOrders(DB) : opposing_orders(DB, orders[i]) = <<>>

\* C39: every Transaction ever appended records shares > 0 and
\* price_per_share > 0.
C39_TransactionsPositive ==
    \A i \in DOMAIN transactions :
        transactions[i].shares > 0 /\ transactions[i].price_per_share > 0

\* -------------------------------------------------- next dividend date
\* crud.get_next_dividend_date.
get_next_dividend_date(current_date) ==
    LET year == current_date.year
        month == current_date.month
        day == current_date.day
    IN  IF month < 3 \/ (month = 3 /\ day <= 31)
        THEN [year |-> year, month |-> 3, day |-> 31]
        ELSE IF month < 6 \/ (month = 6 /\ day <= 30)
        THEN [year |-> year, month |-> 6, day |-> 30]
        ELSE IF month < 9 \/ (month = 9 /\ day <= 30)
        THEN [year |-> year, month |-> 9, day |-> 30]
        ELSE IF month < 12 \/ (month = 12 /\ day <= 31)
        THEN [year |-> year, month |-> 12, day |-> 31]
        ELSE [year |-> year + 1, month |-> 3, day |-> 31]

\* a <= b for two dates.
NotAfter(a, b) ==
    \/ a.year < b.year
    \/ a.year = b.year /\ a.month < b.month
    \/ a.year = b.year /\ a.month = b.month /\ a.day <= b.day

\* The days of the years the simulated date can be in, and the year after.
CalendarDays ==
    UNION { UNION { { [year |-> y, month |-> m, day |-> d]
                      : d \in 1..days_in_month(y, m) }
                    : m \in 1..12 }
            : y \in StartDate.year..(LastYear + 1) }

\* C40: for the simulated date d, get_next_dividend_date(d) is the earliest
\* date >= d on which is_quarter_end is true.
C40_NextDividendDate ==
    LET next == get_next_dividend_date(simulation_date)
    IN  /\ is_quarter_end(next)
        /\ NotAfter(simulation_date, next)
        /\ \A q \in CalendarDays :
               is_quarter_end(q) /\ NotAfter(simulation_date, q)
                 => NotAfter(next, q)

\* Admissions alone, with two companies on the market.
NextAdmission == \E order \in OrderCreate : create_order(order, MaxOrderId)

SpecAdmission == InitTwoCompanies /\ [][NextAdmission]_vars

\* Admissions, and market orders executed commit by commit.
NextCommit ==
    \/ \E order \in OrderCreate : create_order(order, MaxOrderId)
    \/ \E order_id \in 1..MaxOrderId : begin_market_order(order_id)
    \/ market_fill_first_commit
    \/ market_fill_next_commit
    \/ end_market_order

SpecCommit == Init /\ [][NextCommit]_vars

\* execute_market_order seen commit by commit, for a buyer short of cash.
SpecMarketBuy == InitScarce /\ [][NextCommit]_vars
====
